---------------------------- MODULE Spec2Model ----------------------------
(***************************************************************************)
(* repair-json-stream: the batch repair automaton (repairJson), its        *)
(* preprocessing stage (preprocessJson) and the stateful incremental       *)
(* engine (IncrementalJsonRepair: push / end / snapshot / reset).          *)
(*                                                                         *)
(* Text is a sequence of characters; a character is a one-character string *)
(* (code points above 255 are written "U+XXXX").                           *)
(***************************************************************************)
EXTENDS Integers, Sequences, FiniteSets, TLC

VARIABLES
    input,      \* batch: the argument of repairJson
    pc,         \* batch: "start" | "scan" | "done"
    bat,        \* batch: the locals of repairJson (processed, i, output, stack, flags)
    result,     \* batch: the returned string (once pc = "done")
    steps,      \* batch: loop iterations executed so far
    inc,        \* incremental: the fields of one IncrementalJsonRepair instance
    pushed,     \* incremental: all characters pushed since construction / reset
    out,        \* incremental: the push results concatenated since construction / reset
    closing,    \* incremental: the string returned by the last call when that
                \* was end() or snapshot(), empty otherwise
    lastOp,     \* incremental: the last call made on the instance ("throw" when
                \* it threw instead of returning)
    ends,       \* incremental: end() calls since construction / reset
    discarded,  \* incremental: the characters the engine had consumed when the
                \* last call, a reset(), was made; 0 after any other call
    log,        \* incremental: the events handed to onRepair by the last call,
                \* as <<kind, index>> pairs
    tr,         \* stream adapter: the closure of one Transform / TransformStream
                \* (buffer), what was written to it and what it has emitted
    ex          \* extraction: the last call of extractJson / extractAllJson, its
                \* arguments and what it returned

vars ==
    <<input, pc, bat, result, steps, inc, pushed, out, closing, lastOp, ends, discarded,
      log, tr, ex>>
batchVars == <<input, pc, bat, result, steps>>
incVars == <<inc, pushed, out, closing, lastOp, ends, discarded, log>>

---------------------------------------------------------------------------
(* Characters                                                              *)

DQ == "\""
SQ == "'"
BSL == "\\"
LF == "\n"
CR == "\r"
TAB == "\t"
SP == " "
NBSP == "U+00A0"
NNBSP == "U+202F"
MMSP == "U+205F"
IDSP == "U+3000"
LDQ == "U+201C"
RDQ == "U+201D"
LSQ == "U+2018"
RSQ == "U+2019"
BT == "U+0060"    \* the backtick

Digits == {"0", "1", "2", "3", "4", "5", "6", "7", "8", "9"}
Upper == {"A", "B", "C", "D", "E", "F", "G", "H", "I", "J", "K", "L", "M",
          "N", "O", "P", "Q", "R", "S", "T", "U", "V", "W", "X", "Y", "Z"}
Lower == {"a", "b", "c", "d", "e", "f", "g", "h", "i", "j", "k", "l", "m",
          "n", "o", "p", "q", "r", "s", "t", "u", "v", "w", "x", "y", "z"}

\* Code points above 255: outside the incremental engine's 256-entry table.
Above255 == {NNBSP, MMSP, IDSP, LDQ, RDQ, LSQ, RSQ}

OBJECT == 1
ARRAY == 2
STRINGCTX == 3

isQuoteChar(c) == c \in {DQ, SQ, LDQ, RDQ, LSQ, RSQ}

isIdentifierStart(c) == c \in Upper \cup Lower \cup {"_", "$"}

isIdentifierChar(c) == isIdentifierStart(c) \/ c \in Digits

isWhitespace(c) == c \in {SP, TAB, LF, CR, NBSP, NNBSP, MMSP, IDSP}

VT == "U+000B"
FF == "U+000C"
BOM == "U+FEFF"

\* String.prototype.trim's white space, over the characters modelled here.
isTrimSpace(c) == c \in {SP, TAB, LF, CR, VT, FF, NBSP, NNBSP, MMSP, IDSP, BOM}

W_true == <<"t", "r", "u", "e">>
W_false == <<"f", "a", "l", "s", "e">>
W_null == <<"n", "u", "l", "l">>
W_True == <<"T", "r", "u", "e">>
W_False == <<"F", "a", "l", "s", "e">>
W_None == <<"N", "o", "n", "e">>

Take(s, n) == SubSeq(s, 1, n)
Drop(s, n) == SubSeq(s, n + 1, Len(s))
Last(s) == s[Len(s)]
Front(s) == SubSeq(s, 1, Len(s) - 1)

\* The table: key -> completion. The lowercase words are keys only as proper
\* prefixes; the capitalised words are keys as whole words too.
INCOMPLETE_LITERALS ==
    {<<Take(W_true, n), W_true>> : n \in 1..3}
    \cup {<<Take(W_false, n), W_false>> : n \in 1..4}
    \cup {<<Take(W_null, n), W_null>> : n \in 1..3}
    \cup {<<Take(W_None, n), W_null>> : n \in 1..4}
    \cup {<<Take(W_True, n), W_true>> : n \in 1..4}
    \cup {<<Take(W_False, n), W_false>> : n \in 1..5}

\* INCOMPLETE_LITERALS is an object literal, and INCOMPLETE_LITERALS[key] also
\* finds what the object inherits from Object.prototype: for these keys the
\* lookup yields a function (an object for __proto__), which is truthy.
INHERITED_KEYS ==
    { <<"c", "o", "n", "s", "t", "r", "u", "c", "t", "o", "r">>,
      <<"t", "o", "S", "t", "r", "i", "n", "g">>,
      <<"v", "a", "l", "u", "e", "O", "f">>,
      <<"h", "a", "s", "O", "w", "n", "P", "r", "o", "p", "e", "r", "t", "y">>,
      <<"i", "s", "P", "r", "o", "t", "o", "t", "y", "p", "e", "O", "f">>,
      <<"p", "r", "o", "p", "e", "r", "t", "y", "I", "s", "E", "n", "u", "m", "e", "r", "a", "b", "l", "e">>,
      <<"t", "o", "L", "o", "c", "a", "l", "e", "S", "t", "r", "i", "n", "g">>,
      <<"_", "_", "p", "r", "o", "t", "o", "_", "_">>,
      <<"_", "_", "d", "e", "f", "i", "n", "e", "G", "e", "t", "t", "e", "r", "_", "_">>,
      <<"_", "_", "d", "e", "f", "i", "n", "e", "S", "e", "t", "t", "e", "r", "_", "_">>,
      <<"_", "_", "l", "o", "o", "k", "u", "p", "G", "e", "t", "t", "e", "r", "_", "_">>,
      <<"_", "_", "l", "o", "o", "k", "u", "p", "S", "e", "t", "t", "e", "r", "_", "_">> }

isOwnKey(v) == \E e \in INCOMPLETE_LITERALS : e[1] = v

\* if (completion): the lookup found something truthy.
hasCompletion(v) == isOwnKey(v) \/ v \in INHERITED_KEYS

\* An array slot holding undefined: join('') renders it as nothing.
UNDEFINED == ""
isDefined(c) == c # UNDEFINED

\* completion.length of an inherited key: the arity of the function; the
\* object found for __proto__ has no length, so that "j < completion.length"
\* is false at once.
inheritedLength(v) ==
    IF v \in { <<"t", "o", "S", "t", "r", "i", "n", "g">>, <<"v", "a", "l", "u", "e", "O", "f">>, <<"t", "o", "L", "o", "c", "a", "l", "e", "S", "t", "r", "i", "n", "g">>, <<"_", "_", "p", "r", "o", "t", "o", "_", "_">> }
    THEN 0
    ELSE IF v \in { <<"_", "_", "d", "e", "f", "i", "n", "e", "G", "e", "t", "t", "e", "r", "_", "_">>, <<"_", "_", "d", "e", "f", "i", "n", "e", "S", "e", "t", "t", "e", "r", "_", "_">> }
    THEN 2
    ELSE 1

\* What the batch loop "output[outIdx++] = completion[j]" writes: the
\* characters of the completion of an own key; for an inherited key one
\* undefined per unit of completion.length (completion[j] is undefined).
completionOf(v) ==
    IF isOwnKey(v) THEN (CHOOSE e \in INCOMPLETE_LITERALS : e[1] = v)[2]
    ELSE [j \in 1..inheritedLength(v) |-> UNDEFINED]

MONGO_WRAPPERS ==
    { <<"N","u","m","b","e","r","L","o","n","g">>,
      <<"N","u","m","b","e","r","I","n","t">>,
      <<"N","u","m","b","e","r","D","e","c","i","m","a","l">>,
      <<"O","b","j","e","c","t","I","d">>,
      <<"I","S","O","D","a","t","e">>,
      <<"D","a","t","e">>,
      <<"T","i","m","e","s","t","a","m","p">>,
      <<"B","i","n","D","a","t","a">>,
      <<"U","U","I","D">>,
      <<"D","B","R","e","f">>,
      <<"M","i","n","K","e","y">>,
      <<"M","a","x","K","e","y">>,
      <<"R","e","g","E","x","p">> }

---------------------------------------------------------------------------
(* Batch repair automaton: repairJson                                      *)

\* The locals of repairJson right before the scan loop, for preprocessed text p.
BatchInit(p) ==
    [ processed |-> p, i |-> 0, output |-> <<>>, stack |-> <<>>,
      inString |-> FALSE, stringQuote |-> DQ, escaped |-> FALSE,
      inObjectKey |-> FALSE, needsColon |-> FALSE, expectingValue |-> FALSE,
      expectingKeyOrEnd |-> FALSE, inValue |-> FALSE, currentValue |-> <<>>,
      inUnquotedKey |-> FALSE, unquotedKey |-> <<>>,
      inSingleLineComment |-> FALSE, inMultiLineComment |-> FALSE,
      justClosedString |-> FALSE, rootElementCount |-> 0,
      inMongoWrapper |-> FALSE, mongoParenDepth |-> 0 ]

\* One pass through the loop body either ends the iteration ("continue", or the
\* end of the switch) or falls through to the next block.
Cont(s) == [st |-> s, cont |-> TRUE]
Fall(s) == [st |-> s, cont |-> FALSE]
Then(r, F(_)) == IF r.cont THEN r ELSE F(r.st)

cur(s) == s.processed[s.i + 1]
len(s) == Len(s.processed)
top(stack) == stack[Len(stack)]
pop(stack) == IF stack = <<>> THEN <<>> ELSE Front(stack)
Emit(s, cs) == [s EXCEPT !.output = @ \o cs]

isBufferSpace(c) == c \in {SP, TAB, LF, CR}

RECURSIVE lastNonSpace(_, _)
\* The index (1-based, 0 when none) of the last element of buf[1..n] that is not
\* ' ', '\t', '\n' or '\r'.
lastNonSpace(buf, n) ==
    IF n = 0 THEN 0
    ELSE IF isBufferSpace(buf[n]) THEN lastNonSpace(buf, n - 1) ELSE n

removeTrailingCommaFromBuffer(buf) ==
    LET k == lastNonSpace(buf, Len(buf))
    IN IF k > 0 /\ buf[k] = "," THEN Take(buf, k - 1) \o Drop(buf, k) ELSE buf

\* As B_LineComment, but the terminator is discarded with the comment (the
\* fault C34 is checked against).
B_LineCommentToEndOfLine(s) ==
    IF s.inSingleLineComment
    THEN Cont(IF cur(s) \in {LF, CR}
              THEN [s EXCEPT !.inSingleLineComment = FALSE]
              ELSE s)
    ELSE Fall(s)

B_LineComment(s) ==
    IF s.inSingleLineComment
    THEN Cont(IF cur(s) \in {LF, CR}
              THEN Emit([s EXCEPT !.inSingleLineComment = FALSE], <<cur(s)>>)
              ELSE s)
    ELSE Fall(s)

B_BlockComment(s) ==
    IF s.inMultiLineComment
    THEN Cont(IF cur(s) = "*" /\ s.i + 1 < len(s) /\ s.processed[s.i + 2] = "/"
              THEN [s EXCEPT !.inMultiLineComment = FALSE, !.i = @ + 1]
              ELSE s)
    ELSE Fall(s)

B_MongoWrapper(s) ==
    IF ~s.inMongoWrapper THEN Fall(s)
    ELSE IF cur(s) = "("
    THEN LET s1 == [s EXCEPT !.mongoParenDepth = @ + 1]
         IN IF s1.mongoParenDepth = 1 THEN Cont(s1) ELSE Fall(s1)
    ELSE IF cur(s) = ")"
    THEN LET s1 == [s EXCEPT !.mongoParenDepth = @ - 1]
         IN IF s1.mongoParenDepth = 0
            THEN Cont([s1 EXCEPT !.inMongoWrapper = FALSE])
            ELSE Fall(s1)
    ELSE Fall(s)

\* A faulty closesString, for the sensitivity check of C4: any quote glyph
\* closes any string.
closesStringAnyQuote(quote, c) == isQuoteChar(c)

\* A faulty closesString, for the sensitivity check of C16: only the glyph
\* that opened a string closes it.
closesStringSameGlyph(quote, c) == c = quote

\* The closing quote of a string: the opener itself, or any quote glyph when
\* the opener was not the straight double quote.
closesString(quote, c) == c = quote \/ (quote # DQ /\ isQuoteChar(c))

B_String(s) ==
    IF ~s.inString THEN Fall(s)
    ELSE Cont(
      IF s.escaped THEN Emit([s EXCEPT !.escaped = FALSE], <<cur(s)>>)
      ELSE IF cur(s) = BSL THEN Emit([s EXCEPT !.escaped = TRUE], <<cur(s)>>)
      ELSE IF closesString(s.stringQuote, cur(s))
      THEN LET s1 == Emit([s EXCEPT !.inString = FALSE, !.stack = pop(@),
                                    !.justClosedString = TRUE], <<DQ>>)
           IN IF s1.inObjectKey
              THEN [s1 EXCEPT !.inObjectKey = FALSE, !.needsColon = TRUE,
                              !.expectingKeyOrEnd = FALSE]
              ELSE IF s1.expectingValue
              THEN [s1 EXCEPT !.expectingValue = FALSE, !.needsColon = FALSE]
              ELSE s1
      ELSE Emit(s, <<cur(s)>>))

B_UnquotedKey(s) ==
    IF ~s.inUnquotedKey THEN Fall(s)
    ELSE IF isIdentifierChar(cur(s))
    THEN Cont([s EXCEPT !.unquotedKey = Append(@, cur(s))])
    ELSE IF cur(s) = "(" /\ s.unquotedKey \in MONGO_WRAPPERS
    THEN Cont([s EXCEPT !.inMongoWrapper = TRUE, !.mongoParenDepth = 1,
                        !.inUnquotedKey = FALSE, !.unquotedKey = <<>>])
    ELSE Fall([Emit(s, <<DQ>> \o s.unquotedKey \o <<DQ>>)
                 EXCEPT !.inUnquotedKey = FALSE, !.unquotedKey = <<>>,
                        !.needsColon = TRUE, !.expectingKeyOrEnd = FALSE])

isValueChar(c) == c \in Digits \cup {".", "e", "E", "+", "-"} \cup Lower \cup Upper

\* The output with the last n elements retracted (outIdx -= n).
Retract(buf, n) == Take(buf, Len(buf) - n)

\* As B_Value, but value mode is not left when a character ends the value
\* (the fault C28 is checked against).
B_ValueLeftOn(s) ==
    IF ~s.inValue THEN Fall(s)
    ELSE IF isValueChar(cur(s))
    THEN Cont(Emit([s EXCEPT !.currentValue = Append(@, cur(s))], <<cur(s)>>))
    ELSE IF cur(s) = "(" /\ s.currentValue \in MONGO_WRAPPERS
    THEN Cont([s EXCEPT !.inValue = FALSE,
                        !.output = Retract(@, Len(s.currentValue)),
                        !.inMongoWrapper = TRUE, !.mongoParenDepth = 1,
                        !.currentValue = <<>>])
    ELSE Fall([s EXCEPT !.output = IF hasCompletion(s.currentValue)
                                   THEN Retract(@, Len(s.currentValue))
                                        \o completionOf(s.currentValue)
                                   ELSE @,
                        !.currentValue = <<>>, !.expectingValue = FALSE,
                        !.justClosedString = FALSE])

B_Value(s) ==
    IF ~s.inValue THEN Fall(s)
    ELSE IF isValueChar(cur(s))
    THEN Cont(Emit([s EXCEPT !.currentValue = Append(@, cur(s))], <<cur(s)>>))
    ELSE IF cur(s) = "(" /\ s.currentValue \in MONGO_WRAPPERS
    THEN Cont([s EXCEPT !.inValue = FALSE,
                        !.output = Retract(@, Len(s.currentValue)),
                        !.inMongoWrapper = TRUE, !.mongoParenDepth = 1,
                        !.currentValue = <<>>])
    ELSE Fall([s EXCEPT !.inValue = FALSE,
                        !.output = IF hasCompletion(s.currentValue)
                                   THEN Retract(@, Len(s.currentValue))
                                        \o completionOf(s.currentValue)
                                   ELSE @,
                        !.currentValue = <<>>, !.expectingValue = FALSE,
                        !.justClosedString = FALSE])

B_CommentStart(s) ==
    IF cur(s) = "/" /\ s.i + 1 < len(s) /\ s.processed[s.i + 2] = "/"
    THEN Cont([s EXCEPT !.inSingleLineComment = TRUE, !.i = @ + 1])
    ELSE IF cur(s) = "/" /\ s.i + 1 < len(s) /\ s.processed[s.i + 2] = "*"
    THEN Cont([s EXCEPT !.inMultiLineComment = TRUE, !.i = @ + 1])
    ELSE Fall(s)

B_Whitespace(s) == IF isWhitespace(cur(s)) THEN Cont(Emit(s, <<SP>>)) ELSE Fall(s)

B_Ellipsis(s) ==
    IF cur(s) = "." /\ s.i + 2 < len(s)
       /\ s.processed[s.i + 2] = "." /\ s.processed[s.i + 3] = "."
    THEN Cont([s EXCEPT !.i = @ + 2])
    ELSE Fall(s)

B_Concat(s) == IF cur(s) = "+" /\ s.justClosedString THEN Cont(s) ELSE Fall(s)

B_ResetJustClosed(s) ==
    Fall(IF ~isQuoteChar(cur(s)) /\ ~isWhitespace(cur(s))
         THEN [s EXCEPT !.justClosedString = FALSE]
         ELSE s)

topIs(s, ctx) == s.stack # <<>> /\ top(s.stack) = ctx

W_nullMember == <<":">> \o W_null

\* '{' and '[' at depth 0 after a completed root element: the NDJSON comma.
ndjsonComma(s) ==
    IF s.stack = <<>> /\ s.rootElementCount > 0 THEN Emit(s, <<",">>) ELSE s

countRoot(s) ==
    IF s.stack = <<>> THEN [s EXCEPT !.rootElementCount = @ + 1] ELSE s

B_OpenBrace(s) ==
    LET s1 == ndjsonComma(s)
        s2 == IF s1.expectingKeyOrEnd /\ topIs(s1, OBJECT)
              THEN [Emit(s1, <<DQ, "_", DQ, ":">>)
                      EXCEPT !.expectingKeyOrEnd = FALSE, !.expectingValue = FALSE]
              ELSE s1
    IN [Emit(s2, <<"{">>)
          EXCEPT !.stack = Append(@, OBJECT), !.expectingKeyOrEnd = TRUE,
                 !.needsColon = FALSE, !.expectingValue = FALSE,
                 !.justClosedString = FALSE]

B_CloseBrace(s) ==
    LET s1 == [s EXCEPT !.output = removeTrailingCommaFromBuffer(@)]
        s2 == IF s1.needsColon
              THEN [Emit(s1, W_nullMember) EXCEPT !.needsColon = FALSE]
              ELSE s1
    IN countRoot([Emit(s2, <<"}">>)
                    EXCEPT !.stack = IF topIs(s2, OBJECT) THEN pop(@) ELSE @,
                           !.expectingKeyOrEnd = FALSE, !.expectingValue = FALSE,
                           !.justClosedString = FALSE])

B_OpenBracket(s) ==
    [Emit(ndjsonComma(s), <<"[">>)
       EXCEPT !.stack = Append(@, ARRAY), !.expectingValue = FALSE,
              !.needsColon = FALSE, !.justClosedString = FALSE]

\* As B_CloseBracket, but only a ']' at the root is skipped: in an object it is
\* written and closes the object (the fault C31 is checked against).
B_CloseBracketAnyTop(s) ==
    IF s.stack = <<>> THEN s
    ELSE countRoot([Emit([s EXCEPT !.output = removeTrailingCommaFromBuffer(@)], <<"]">>)
                      EXCEPT !.stack = pop(@),
                             !.expectingValue = FALSE, !.justClosedString = FALSE])

B_CloseBracket(s) ==
    IF s.stack = <<>> THEN s
    ELSE IF top(s.stack) = OBJECT THEN s
    ELSE countRoot([Emit([s EXCEPT !.output = removeTrailingCommaFromBuffer(@)], <<"]">>)
                      EXCEPT !.stack = IF topIs(s, ARRAY) THEN pop(@) ELSE @,
                             !.expectingValue = FALSE, !.justClosedString = FALSE])

RECURSIVE lastNonBlank(_, _)
\* The index (0 when none) of the last element of buf[1..n] that is not ' ' or '\t'.
lastNonBlank(buf, n) ==
    IF n = 0 THEN 0
    ELSE IF buf[n] \in {SP, TAB} THEN lastNonBlank(buf, n - 1) ELSE n

\* As openString, but the context stack is left as it is (the fault C27 is
\* checked against).
openStringUntagged(s) ==
    [Emit(s, <<DQ>>)
       EXCEPT !.inString = TRUE, !.stringQuote = cur(s),
              !.inObjectKey = IF s.expectingKeyOrEnd THEN TRUE ELSE @,
              !.needsColon = FALSE, !.justClosedString = FALSE]

\* A quote opening a string where no string was just closed.
openString(s) ==
    [Emit(s, <<DQ>>)
       EXCEPT !.inString = TRUE, !.stringQuote = cur(s),
              !.stack = Append(@, STRINGCTX),
              !.inObjectKey = IF s.expectingKeyOrEnd THEN TRUE ELSE @,
              !.needsColon = FALSE, !.justClosedString = FALSE]

\* case '"', "'": after a just-closed string the closing quote and the blanks
\* after it are retracted and the string goes on.
B_StraightQuote(s) ==
    IF s.justClosedString
    THEN LET k == lastNonBlank(s.output, Len(s.output))
         IN [s EXCEPT !.output = IF k > 0 /\ @[k] = DQ THEN Take(@, k - 1) ELSE @,
                      !.inString = TRUE, !.stringQuote = cur(s),
                      !.stack = Append(@, STRINGCTX), !.justClosedString = FALSE]
    ELSE openString(s)

\* default: a curly quote; after a just-closed string only a closing quote
\* that is the very last output character is retracted.
B_CurlyQuote(s) ==
    IF s.justClosedString
    THEN [s EXCEPT !.output = IF @ # <<>> /\ Last(@) = DQ THEN Front(@) ELSE @,
                   !.inString = TRUE, !.stringQuote = cur(s),
                   !.stack = Append(@, STRINGCTX), !.justClosedString = FALSE]
    ELSE openString(s)

B_Colon(s) ==
    IF ~s.needsColon /\ topIs(s, OBJECT) THEN s
    ELSE IF s.stack = <<>> THEN s
    ELSE [Emit(s, <<":">>)
            EXCEPT !.needsColon = FALSE, !.expectingValue = TRUE,
                   !.expectingKeyOrEnd = FALSE, !.justClosedString = FALSE]

B_Comma(s) ==
    LET s1 == Emit(s, <<",">>)
        s2 == IF topIs(s1, OBJECT)
              THEN [s1 EXCEPT !.expectingKeyOrEnd = TRUE, !.expectingValue = FALSE]
              ELSE s1
    IN [s2 EXCEPT !.needsColon = FALSE, !.justClosedString = FALSE]

startsValue(s, c) ==
    c \in {"t", "f", "n", "T", "F", "N", "-"} \cup Digits
    \/ (isIdentifierStart(c) /\ ~s.expectingKeyOrEnd)

B_Default(s) ==
    IF isQuoteChar(cur(s)) THEN B_CurlyQuote(s)
    ELSE IF s.expectingKeyOrEnd /\ isIdentifierStart(cur(s))
    THEN [s EXCEPT !.inUnquotedKey = TRUE, !.unquotedKey = <<cur(s)>>,
                   !.justClosedString = FALSE]
    ELSE IF startsValue(s, cur(s))
    THEN [Emit(s, <<cur(s)>>)
            EXCEPT !.currentValue = <<cur(s)>>, !.inValue = TRUE,
                   !.needsColon = FALSE, !.justClosedString = FALSE]
    ELSE [Emit(s, <<cur(s)>>) EXCEPT !.justClosedString = FALSE]

B_Switch(s) ==
    Cont(CASE cur(s) = "{" -> B_OpenBrace(s)
           [] cur(s) = "}" -> B_CloseBrace(s)
           [] cur(s) = "[" -> B_OpenBracket(s)
           [] cur(s) = "]" -> B_CloseBracket(s)
           [] cur(s) \in {DQ, SQ} -> B_StraightQuote(s)
           [] cur(s) = ":" -> B_Colon(s)
           [] cur(s) = "," -> B_Comma(s)
           [] OTHER -> B_Default(s))

\* One iteration of the scan loop (the body, then the loop's i++).
BatchStep(s) ==
    LET r == Then(Then(Then(Then(Then(Then(Then(Then(Then(Then(Then(
                 B_LineComment(s), B_BlockComment), B_MongoWrapper), B_String),
                 B_UnquotedKey), B_Value), B_CommentStart), B_Whitespace),
                 B_Ellipsis), B_Concat), B_ResetJustClosed), B_Switch)
    IN [r.st EXCEPT !.i = @ + 1]

\* A faulty closeAll, for the sensitivity check of C3: only the innermost
\* context is closed.
closeInnermost(s) ==
    IF s.stack = <<>> THEN s
    ELSE LET ctx == top(s.stack)
             s1 == [s EXCEPT !.stack = pop(@)]
         IN IF ctx = OBJECT THEN countRoot(Emit(s1, <<"}">>))
            ELSE IF ctx = ARRAY THEN countRoot(Emit(s1, <<"]">>))
            ELSE s1

RECURSIVE closeAll(_)
\* while (stack.length > 0): pop, append the closer of an OBJECT or ARRAY entry.
closeAll(s) ==
    IF s.stack = <<>> THEN s
    ELSE LET ctx == top(s.stack)
             s1 == [s EXCEPT !.stack = pop(@)]
         IN closeAll(IF ctx = OBJECT THEN countRoot(Emit(s1, <<"}">>))
                     ELSE IF ctx = ARRAY THEN countRoot(Emit(s1, <<"]">>))
                     ELSE s1)

F_UnquotedKey(s) ==
    IF s.inUnquotedKey /\ s.unquotedKey # <<>>
    THEN Emit(s, <<DQ>> \o s.unquotedKey \o <<DQ>> \o W_nullMember)
    ELSE s

F_Value(s) ==
    IF s.inValue /\ s.currentValue # <<>> /\ hasCompletion(s.currentValue)
    THEN [s EXCEPT !.output = Retract(@, Len(s.currentValue))
                              \o completionOf(s.currentValue)]
    ELSE s

F_String(s) ==
    IF ~s.inString THEN s
    ELSE LET s1 == IF s.escaped /\ s.output # <<>> /\ Last(s.output) = BSL
                   THEN [s EXCEPT !.output = Front(@)]
                   ELSE s
             s2 == [Emit(s1, <<DQ>>) EXCEPT !.stack = pop(@)]
         IN IF s2.inObjectKey \/ s2.expectingKeyOrEnd
            THEN [Emit(s2, W_nullMember) EXCEPT !.needsColon = FALSE]
            ELSE s2

F_NeedsColon(s) == IF s.needsColon THEN Emit(s, W_nullMember) ELSE s

F_ExpectingValue(s) ==
    IF s.expectingValue /\ ~s.inString /\ ~s.inValue
    THEN LET k == lastNonSpace(s.output, Len(s.output))
         IN IF k > 0 /\ s.output[k] = ":" THEN Emit(s, W_null) ELSE s
    ELSE s

F_TrailingComma(s) == [s EXCEPT !.output = removeTrailingCommaFromBuffer(@)]

\* The locals after the finalisation that follows the scan loop.
Finalize(s) ==
    closeAll(F_TrailingComma(F_ExpectingValue(F_NeedsColon(
        F_String(F_Value(F_UnquotedKey(s)))))))

\* A faulty return, for the sensitivity check of C13: the joined output is
\* never wrapped.
ReturnedUnwrapped(s) == SelectSeq(s.output, isDefined)

\* The value returned: the buffer, wrapped when several roots were counted.
Returned(s) ==
    LET joined == SelectSeq(s.output, isDefined)
    IN IF s.rootElementCount > 1 THEN <<"[">> \o joined \o <<"]">> ELSE joined

RECURSIVE Scan(_)
\* The scan loop run to its end.
Scan(s) == IF s.i < len(s) THEN Scan(BatchStep(s)) ELSE s

\* The automaton alone on text p: scan, finalise, return (no preprocessing).
Automaton(p) == Returned(Finalize(Scan(BatchInit(p))))

---------------------------------------------------------------------------
(* Preprocessing stage: preprocessJson (indices are 0-based, as in the     *)
(* source; str[k] of the source is at(str, k))                             *)

at(str, k) == str[k + 1]
substring(str, a, b) == SubSeq(str, a + 1, b)

RECURSIVE skipWhitespace(_, _)
\* while (k < len && isWhitespace(str[k])) k++
skipWhitespace(str, k) ==
    IF k < Len(str) /\ isWhitespace(at(str, k)) THEN skipWhitespace(str, k + 1) ELSE k

RECURSIVE skipWhitespaceBack(_, _)
\* while (k >= 0 && isWhitespace(str[k])) k--
skipWhitespaceBack(str, k) ==
    IF k >= 0 /\ isWhitespace(at(str, k)) THEN skipWhitespaceBack(str, k - 1) ELSE k

RECURSIVE skipIdentifier(_, _)
skipIdentifier(str, k) ==
    IF k < Len(str) /\ isIdentifierChar(at(str, k)) THEN skipIdentifier(str, k + 1) ELSE k

RECURSIVE skipLine(_, _)
\* while (k < len && str[k] !== '\n' && str[k] !== '\r') k++
skipLine(str, k) ==
    IF k < Len(str) /\ at(str, k) \notin {LF, CR} THEN skipLine(str, k + 1) ELSE k

isFenceAt(str, k) ==
    k + 2 < Len(str) /\ at(str, k) = BT /\ at(str, k + 1) = BT /\ at(str, k + 2) = BT

RECURSIVE indexOfFence(_, _)
\* str.indexOf(fence, k): -1 when there is none.
indexOfFence(str, k) ==
    IF k + 3 > Len(str) THEN -1
    ELSE IF at(str, k) = BT /\ at(str, k + 1) = BT /\ at(str, k + 2) = BT THEN k
    ELSE indexOfFence(str, k + 1)

\* 1. Strip a fenced code block.
stripFence(str) ==
    LET start == skipWhitespace(str, 0)
    IN IF isFenceAt(str, start)
       THEN LET eol == skipLine(str, start + 3)
                contentStart == IF eol < Len(str) THEN eol + 1 ELSE eol
                closeIdx == indexOfFence(str, contentStart)
            IN IF closeIdx # -1 THEN substring(str, contentStart, closeIdx)
               ELSE substring(str, contentStart, Len(str))
       ELSE str

\* 2. Strip a JSONP wrapper. In the source the scan starts at start, which
\* is the first non-whitespace position of the text at hand in both paths.
stripJsonp(str) ==
    LET start == skipWhitespace(str, 0)
    IN IF start < Len(str) /\ isIdentifierStart(at(str, start))
       THEN LET p == skipWhitespace(str, skipIdentifier(str, start))
            IN IF p < Len(str) /\ at(str, p) = "("
               THEN LET jsonStart == skipWhitespace(str, p + 1)
                    IN IF jsonStart < Len(str) /\ at(str, jsonStart) \in {"{", "["}
                       THEN LET body == substring(str, jsonStart, Len(str))
                                e1 == skipWhitespaceBack(body, Len(body) - 1)
                                e2 == IF e1 >= 0 /\ at(body, e1) = ";" THEN e1 - 1 ELSE e1
                                e3 == skipWhitespaceBack(body, e2)
                                e4 == IF e3 >= 0 /\ at(body, e3) = ")" THEN e3 - 1 ELSE e3
                            IN substring(body, 0, e4 + 1)
                       ELSE str
               ELSE str
       ELSE str

RECURSIVE replaceEscape(_, _, _)
\* str.replace(/\\X/g, to): every backslash followed by x, left to right.
replaceEscape(str, x, to) ==
    IF Len(str) < 2 THEN str
    ELSE IF str[1] = BSL /\ str[2] = x
    THEN <<to>> \o replaceEscape(Drop(str, 2), x, to)
    ELSE <<str[1]>> \o replaceEscape(Drop(str, 1), x, to)

\* 3. Unescape stringified JSON: the text starts with {\ or [\.
unescapeJson(str) ==
    LET trimStart == skipWhitespace(str, 0)
    IN IF trimStart + 1 < Len(str)
          /\ at(str, trimStart) \in {"{", "["} /\ at(str, trimStart + 1) = BSL
       THEN replaceEscape(replaceEscape(replaceEscape(replaceEscape(replaceEscape(
                str, DQ, DQ), BSL, BSL), "n", LF), "r", CR), "t", TAB)
       ELSE str

preprocessJson(str) == unescapeJson(stripJsonp(stripFence(str)))

\* A faulty isBlank, for the sensitivity check of C23: only the empty
\* string counts (the trim() is left out).
isEmptyInput(str) == str = <<>>

\* !input || input.trim().length === 0
isBlank(str) == \A k \in 1..Len(str) : isTrimSpace(str[k])

repairJson(str) == IF isBlank(str) THEN <<>> ELSE Automaton(preprocessJson(str))

---------------------------------------------------------------------------
(* JSON texts (RFC 8259, what JSON.parse accepts) and their values: the    *)
(* yardstick of the validity and pass-through properties.                  *)

JsonSpace == {SP, TAB, LF, CR}
ControlChars == {TAB, LF, CR}
SimpleEscapes == {DQ, BSL, "/", "b", "f", "n", "r", "t"}
HexDigits == Digits \cup {"a", "b", "c", "d", "e", "f", "A", "B", "C", "D", "E", "F"}

Node(type, text, kids) == [type |-> type, text |-> text, kids |-> kids]
Parsed(k, v) == [ok |-> TRUE, next |-> k, val |-> v]
Fail == [ok |-> FALSE, next |-> 0, val |-> Node("none", <<>>, <<>>)]

RECURSIVE skipJsonSpace(_, _)
skipJsonSpace(t, k) ==
    IF k <= Len(t) /\ t[k] \in JsonSpace THEN skipJsonSpace(t, k + 1) ELSE k

RECURSIVE skipDigits(_, _)
skipDigits(t, k) == IF k <= Len(t) /\ t[k] \in Digits THEN skipDigits(t, k + 1) ELSE k

RECURSIVE stringEnd(_, _)
\* The index of the quote closing the string whose body starts at k; 0 when the
\* body is not well formed (unclosed, a bad escape, a raw control character).
stringEnd(t, k) ==
    IF k > Len(t) THEN 0
    ELSE IF t[k] = DQ THEN k
    ELSE IF t[k] = BSL
    THEN IF k + 1 <= Len(t) /\ t[k + 1] \in SimpleEscapes THEN stringEnd(t, k + 2)
         ELSE IF k + 5 <= Len(t) /\ t[k + 1] = "u"
                 /\ \A j \in (k + 2)..(k + 5) : t[j] \in HexDigits
         THEN stringEnd(t, k + 6)
         ELSE 0
    ELSE IF t[k] \in ControlChars THEN 0
    ELSE stringEnd(t, k + 1)

parseString(t, k) ==
    LET e == stringEnd(t, k + 1)
    IN IF e = 0 THEN Fail ELSE Parsed(e + 1, Node("string", SubSeq(t, k + 1, e - 1), <<>>))

\* The index after the number starting at k; 0 when there is no number there.
numberEnd(t, k) ==
    LET k1 == IF k <= Len(t) /\ t[k] = "-" THEN k + 1 ELSE k
        k2 == IF k1 > Len(t) THEN 0
              ELSE IF t[k1] = "0" THEN k1 + 1
              ELSE IF t[k1] \in Digits THEN skipDigits(t, k1 + 1)
              ELSE 0
        k3 == IF k2 = 0 THEN 0
              ELSE IF k2 <= Len(t) /\ t[k2] = "."
              THEN (IF skipDigits(t, k2 + 1) > k2 + 1 THEN skipDigits(t, k2 + 1) ELSE 0)
              ELSE k2
        ks == IF k3 # 0 /\ k3 + 1 <= Len(t) /\ t[k3 + 1] \in {"+", "-"} THEN k3 + 2 ELSE k3 + 1
    IN IF k3 = 0 THEN 0
       ELSE IF k3 <= Len(t) /\ t[k3] \in {"e", "E"}
       THEN (IF skipDigits(t, ks) > ks THEN skipDigits(t, ks) ELSE 0)
       ELSE k3

parseNumber(t, k) ==
    LET e == numberEnd(t, k)
    IN IF e = 0 THEN Fail ELSE Parsed(e, Node("number", SubSeq(t, k, e - 1), <<>>))

parseWord(t, k, w) ==
    IF k + Len(w) - 1 <= Len(t) /\ SubSeq(t, k, k + Len(w) - 1) = w
    THEN Parsed(k + Len(w), Node("literal", w, <<>>))
    ELSE Fail

RECURSIVE parseValue(_, _), parseElements(_, _, _), parseMembers(_, _, _)

\* The value that starts at k (no leading space).
parseValue(t, k) ==
    IF k > Len(t) THEN Fail
    ELSE IF t[k] = DQ THEN parseString(t, k)
    ELSE IF t[k] = "t" THEN parseWord(t, k, W_true)
    ELSE IF t[k] = "f" THEN parseWord(t, k, W_false)
    ELSE IF t[k] = "n" THEN parseWord(t, k, W_null)
    ELSE IF t[k] = "[" THEN
        LET k1 == skipJsonSpace(t, k + 1)
        IN IF k1 <= Len(t) /\ t[k1] = "]" THEN Parsed(k1 + 1, Node("array", <<>>, <<>>))
           ELSE parseElements(t, k1, <<>>)
    ELSE IF t[k] = "{" THEN
        LET k1 == skipJsonSpace(t, k + 1)
        IN IF k1 <= Len(t) /\ t[k1] = "}" THEN Parsed(k1 + 1, Node("object", <<>>, <<>>))
           ELSE parseMembers(t, k1, <<>>)
    ELSE parseNumber(t, k)

\* value (',' value)* ']' from k, after the elements acc.
parseElements(t, k, acc) ==
    LET v == parseValue(t, k)
        k1 == skipJsonSpace(t, v.next)
    IN IF ~v.ok \/ k1 > Len(t) THEN Fail
       ELSE IF t[k1] = "]" THEN Parsed(k1 + 1, Node("array", <<>>, Append(acc, v.val)))
       ELSE IF t[k1] = "," THEN parseElements(t, skipJsonSpace(t, k1 + 1), Append(acc, v.val))
       ELSE Fail

\* string ':' value (',' string ':' value)* '}' from k, after the members acc
\* (kept as key, value, key, value, ...).
parseMembers(t, k, acc) ==
    IF k > Len(t) \/ t[k] # DQ THEN Fail
    ELSE LET key == parseString(t, k)
             k1 == skipJsonSpace(t, key.next)
         IN IF ~key.ok \/ k1 > Len(t) \/ t[k1] # ":" THEN Fail
            ELSE LET v == parseValue(t, skipJsonSpace(t, k1 + 1))
                     k2 == skipJsonSpace(t, v.next)
                     acc2 == acc \o <<key.val, v.val>>
                 IN IF ~v.ok \/ k2 > Len(t) THEN Fail
                    ELSE IF t[k2] = "}" THEN Parsed(k2 + 1, Node("object", <<>>, acc2))
                    ELSE IF t[k2] = "," THEN parseMembers(t, skipJsonSpace(t, k2 + 1), acc2)
                    ELSE Fail

\* JSON.parse(t): the value of a JSON text, or failure.
parseJson(t) ==
    LET r == parseValue(t, skipJsonSpace(t, 1))
    IN IF r.ok /\ skipJsonSpace(t, r.next) = Len(t) + 1 THEN r ELSE Fail

IsJson(t) == parseJson(t).ok
JsonValue(t) == parseJson(t).val

---------------------------------------------------------------------------
(* Incremental engine: IncrementalJsonRepair                               *)

\* CharTypes, a 256-entry table: a code point above 255 has no flag at all.
hasWhitespaceFlag(c) == c \in {TAB, LF, CR, SP}
hasQuoteFlag(c) == c \in {DQ, SQ}
hasDigitFlag(c) == c \in Digits
hasIdStartFlag(c) == c \in Upper \cup Lower \cup {"_", "$"}
hasValueStartFlag(c) == c \in Digits \cup {"T", "F", "N", "t", "f", "n", "-", "."}

\* The fields of a new instance; onRepair tells whether a callback is installed.
EngineInit(callback) ==
    [ stack |-> <<>>, inString |-> FALSE, stringQuote |-> DQ, escaped |-> FALSE,
      inObjectKey |-> FALSE, needsColon |-> FALSE, expectingValue |-> FALSE,
      expectingKeyOrEnd |-> FALSE, inValue |-> FALSE, currentValue |-> <<>>,
      inUnquotedKey |-> FALSE, unquotedKey |-> <<>>,
      inSingleLineComment |-> FALSE, inMultiLineComment |-> FALSE,
      justClosedString |-> FALSE, rootElementCount |-> 0, totalIndex |-> 0,
      onRepair |-> callback ]

\* A call at work: the instance fields e, the chunk and the position i in it,
\* the call's local output array (its elements are strings) and the events
\* handed to the callback during the call.
Work(e, chunk) ==
    [e |-> e, chunk |-> chunk, i |-> 0, output |-> <<>>, events |-> <<>>,
     threw |-> FALSE]

\* String(completion) for what the lookup finds under an inherited key, as
\* join('') and a template literal render it: the source text of a native
\* function, for __proto__ the text of a plain object.
nativeText(v) ==
    IF v = <<"_", "_", "p", "r", "o", "t", "o", "_", "_">>
    THEN <<"[", "o", "b", "j", "e", "c", "t", " ", "O", "b", "j", "e", "c", "t", "]">>
    ELSE <<"f", "u", "n", "c", "t", "i", "o", "n", " ">>
         \o (IF v = <<"c", "o", "n", "s", "t", "r", "u", "c", "t", "o", "r">> THEN <<"O", "b", "j", "e", "c", "t">> ELSE v)
         \o <<"(", ")", " ", "{", " ", "[", "n", "a", "t", "i", "v", "e", " ", "c", "o", "d", "e", "]", " ", "}">>

\* The array element push() stores for a completed literal, as join('')
\* renders it.
completionElement(v) ==
    IF isOwnKey(v) THEN (CHOOSE e \in INCOMPLETE_LITERALS : e[1] = v)[2]
    ELSE nativeText(v)

ch(w) == w.chunk[w.i + 1]
\* A faulty globalIdx, for the sensitivity check of C21: the position within
\* the chunk, without the characters of the chunks before.
globalIdxInChunk(w) == w.i

globalIdx(w) == w.e.totalIndex + w.i
Push1(w, el) == [w EXCEPT !.output = Append(@, el)]
\* A faulty Report, for the sensitivity check of C19: handing an event to the
\* callback also moves the position counter.
ReportAndAdvance(w, kind, idx) ==
    IF w.e.onRepair
    THEN [w EXCEPT !.events = Append(@, <<kind, idx>>), !.e.totalIndex = @ + 1]
    ELSE w

\* if (this.onRepair) this.onRepair(kind, idx, text)
Report(w, kind, idx) ==
    IF w.e.onRepair THEN [w EXCEPT !.events = Append(@, <<kind, idx>>)] ELSE w
eTopIs(w, ctx) == w.e.stack # <<>> /\ top(w.e.stack) = ctx

RECURSIVE popN(_, _)
\* n times output.pop(): a pop of the empty array does nothing.
popN(arr, n) == IF n = 0 \/ arr = <<>> THEN arr ELSE popN(Front(arr), n - 1)

RECURSIVE join(_)
\* output.join('')
join(arr) == IF arr = <<>> THEN <<>> ELSE arr[1] \o join(Tail(arr))

I_LineComment(w) ==
    IF w.e.inSingleLineComment
    THEN Cont(IF ch(w) \in {LF, CR}
              THEN Push1([w EXCEPT !.e.inSingleLineComment = FALSE], <<SP>>)
              ELSE w)
    ELSE Fall(w)

I_BlockComment(w) ==
    IF w.e.inMultiLineComment
    THEN Cont(IF ch(w) = "*" /\ w.i + 1 < Len(w.chunk) /\ w.chunk[w.i + 2] = "/"
              THEN [w EXCEPT !.e.inMultiLineComment = FALSE, !.i = @ + 1]
              ELSE w)
    ELSE Fall(w)

\* A faulty iClosesString, for the sensitivity check of C7: any quote glyph
\* closes any string.
iClosesStringAnyQuote(quote, c) == hasQuoteFlag(c)

iClosesString(quote, c) == c = quote \/ (quote # DQ /\ hasQuoteFlag(c))

I_String(w) ==
    IF ~w.e.inString THEN Fall(w)
    ELSE Cont(
      IF w.e.escaped THEN Push1([w EXCEPT !.e.escaped = FALSE], <<ch(w)>>)
      ELSE IF ch(w) = BSL THEN Push1([w EXCEPT !.e.escaped = TRUE], <<ch(w)>>)
      ELSE IF iClosesString(w.e.stringQuote, ch(w))
      THEN LET w1 == Push1([w EXCEPT !.e.inString = FALSE, !.e.stack = pop(@),
                                     !.e.justClosedString = TRUE], <<DQ>>)
           IN IF w1.e.inObjectKey
              THEN [w1 EXCEPT !.e.inObjectKey = FALSE, !.e.needsColon = TRUE,
                              !.e.expectingKeyOrEnd = FALSE]
              ELSE IF w1.e.expectingValue
              THEN [w1 EXCEPT !.e.expectingValue = FALSE]
              ELSE w1
      ELSE Push1(w, <<ch(w)>>))

I_UnquotedKey(w) ==
    IF ~w.e.inUnquotedKey THEN Fall(w)
    ELSE IF hasIdStartFlag(ch(w)) \/ hasDigitFlag(ch(w))
    THEN Cont([w EXCEPT !.e.unquotedKey = Append(@, ch(w))])
    ELSE LET w1 == Report(w, "inserted_quote", globalIdx(w))
             w2 == Push1(Push1(Push1(w1, <<DQ>>), w.e.unquotedKey), <<DQ>>)
         IN Fall([w2 EXCEPT !.e.inUnquotedKey = FALSE, !.e.unquotedKey = <<>>,
                            !.e.needsColon = TRUE, !.e.expectingKeyOrEnd = FALSE])

iIsValueChar(c) ==
    hasDigitFlag(c) \/ hasValueStartFlag(c) \/ hasIdStartFlag(c) \/ c = "+"

I_Value(w) ==
    IF ~w.e.inValue THEN Fall(w)
    ELSE IF iIsValueChar(ch(w))
    THEN Cont(Push1([w EXCEPT !.e.currentValue = Append(@, ch(w))], <<ch(w)>>))
    ELSE LET v == w.e.currentValue
             w1 == IF hasCompletion(v)
                   THEN [Report(w, "fixed_literal", globalIdx(w))
                           EXCEPT !.output = Append(popN(@, Len(v)), completionElement(v))]
                   ELSE w
         IN Fall([w1 EXCEPT !.e.inValue = FALSE, !.e.currentValue = <<>>,
                            !.e.expectingValue = FALSE, !.e.justClosedString = FALSE])

I_CommentStart(w) ==
    IF ch(w) = "/" /\ w.i + 1 < Len(w.chunk) /\ w.chunk[w.i + 2] = "/"
    THEN Cont([w EXCEPT !.e.inSingleLineComment = TRUE, !.i = @ + 1])
    ELSE IF ch(w) = "/" /\ w.i + 1 < Len(w.chunk) /\ w.chunk[w.i + 2] = "*"
    THEN Cont([w EXCEPT !.e.inMultiLineComment = TRUE, !.i = @ + 1])
    ELSE Fall(w)

I_Whitespace(w) == IF hasWhitespaceFlag(ch(w)) THEN Cont(Push1(w, <<SP>>)) ELSE Fall(w)

I_Concat(w) == IF ch(w) = "+" /\ w.e.justClosedString THEN Cont(w) ELSE Fall(w)

I_ResetJustClosed(w) ==
    Fall(IF ch(w) # DQ /\ ch(w) # SQ /\ ~hasQuoteFlag(ch(w))
         THEN [w EXCEPT !.e.justClosedString = FALSE]
         ELSE w)

iNdjsonComma(w) ==
    IF w.e.stack = <<>> /\ w.e.rootElementCount > 0
    THEN Push1(Report(w, "missing_comma", globalIdx(w)), <<",">>)
    ELSE w

iCountRoot(w) ==
    IF w.e.stack = <<>> THEN [w EXCEPT !.e.rootElementCount = @ + 1] ELSE w

I_OpenBrace(w) ==
    LET w1 == iNdjsonComma(w)
        w2 == IF w1.e.expectingKeyOrEnd /\ eTopIs(w1, OBJECT)
              THEN [Push1(Report(w1, "synthetic_key", globalIdx(w)), <<DQ, "_", DQ, ":">>)
                      EXCEPT !.e.expectingKeyOrEnd = FALSE]
              ELSE w1
    IN [Push1(w2, <<"{">>)
          EXCEPT !.e.stack = Append(@, OBJECT), !.e.expectingKeyOrEnd = TRUE,
                 !.e.needsColon = FALSE, !.e.expectingValue = FALSE]

I_CloseBrace(w) ==
    LET w1 == IF w.e.needsColon
              THEN [Push1(Report(w, "inserted_value", globalIdx(w)), W_nullMember)
                      EXCEPT !.e.needsColon = FALSE]
              ELSE w
    IN iCountRoot([Push1(w1, <<"}">>)
                     EXCEPT !.e.stack = IF eTopIs(w1, OBJECT) THEN pop(@) ELSE @,
                            !.e.expectingKeyOrEnd = FALSE, !.e.expectingValue = FALSE])

I_OpenBracket(w) ==
    [Push1(iNdjsonComma(w), <<"[">>)
       EXCEPT !.e.stack = Append(@, ARRAY), !.e.expectingValue = FALSE,
              !.e.needsColon = FALSE]

I_CloseBracket(w) ==
    IF w.e.stack = <<>> THEN w
    ELSE IF top(w.e.stack) = OBJECT THEN w
    ELSE iCountRoot([Push1(w, <<"]">>)
                       EXCEPT !.e.stack = IF eTopIs(w, ARRAY) THEN pop(@) ELSE @,
                              !.e.expectingValue = FALSE])

\* case '"', "'": after a just-closed string the closing quote is removed when
\* it is the last element of this call's output.
I_Quote(w) ==
    LET w1 == IF w.e.justClosedString
              THEN [w EXCEPT !.output = IF @ # <<>> /\ Last(@) = <<DQ>> THEN Front(@) ELSE @]
              ELSE [Push1(w, <<DQ>>)
                      EXCEPT !.e.inObjectKey = IF w.e.expectingKeyOrEnd THEN TRUE ELSE @]
    IN [w1 EXCEPT !.e.inString = TRUE, !.e.stringQuote = ch(w),
                  !.e.stack = Append(@, STRINGCTX), !.e.needsColon = FALSE,
                  !.e.justClosedString = FALSE]

I_Colon(w) ==
    IF ~w.e.needsColon /\ w.e.stack # <<>> THEN w
    ELSE IF w.e.stack = <<>> THEN w
    ELSE [Push1(w, <<":">>)
            EXCEPT !.e.needsColon = FALSE, !.e.expectingValue = TRUE,
                   !.e.expectingKeyOrEnd = FALSE]

I_Comma(w) ==
    LET w1 == Push1(w, <<",">>)
        w2 == IF eTopIs(w1, OBJECT)
              THEN [w1 EXCEPT !.e.expectingKeyOrEnd = TRUE, !.e.expectingValue = FALSE]
              ELSE w1
    IN [w2 EXCEPT !.e.needsColon = FALSE]

I_Default(w) ==
    IF hasQuoteFlag(ch(w))
    THEN LET w1 == IF w.e.justClosedString /\ w.output # <<>> /\ Last(w.output) = <<DQ>>
                   THEN [w EXCEPT !.output = Front(@)]
                   ELSE Push1(w, <<DQ>>)
         IN [w1 EXCEPT !.e.inString = TRUE, !.e.stringQuote = ch(w),
                       !.e.stack = Append(@, STRINGCTX),
                       !.e.inObjectKey = IF w.e.expectingKeyOrEnd THEN TRUE ELSE @,
                       !.e.needsColon = FALSE, !.e.justClosedString = FALSE]
    ELSE IF w.e.expectingKeyOrEnd /\ hasIdStartFlag(ch(w))
    THEN [w EXCEPT !.e.inUnquotedKey = TRUE, !.e.unquotedKey = <<ch(w)>>]
    ELSE IF hasValueStartFlag(ch(w)) \/ hasIdStartFlag(ch(w))
    THEN [Push1(w, <<ch(w)>>)
            EXCEPT !.e.currentValue = <<ch(w)>>, !.e.inValue = TRUE,
                   !.e.needsColon = FALSE]
    ELSE Push1(w, <<ch(w)>>)

I_Switch(w) ==
    Cont(CASE ch(w) = "{" -> I_OpenBrace(w)
           [] ch(w) = "}" -> I_CloseBrace(w)
           [] ch(w) = "[" -> I_OpenBracket(w)
           [] ch(w) = "]" -> I_CloseBracket(w)
           [] ch(w) \in {DQ, SQ} -> I_Quote(w)
           [] ch(w) = ":" -> I_Colon(w)
           [] ch(w) = "," -> I_Comma(w)
           [] OTHER -> I_Default(w))

\* One iteration of push's loop (the body, then the loop's i++).
PushStep(w) ==
    LET r == Then(Then(Then(Then(Then(Then(Then(Then(Then(
                 I_LineComment(w), I_BlockComment), I_String), I_UnquotedKey),
                 I_Value), I_CommentStart), I_Whitespace), I_Concat),
                 I_ResetJustClosed), I_Switch)
    IN [r.st EXCEPT !.i = @ + 1]

RECURSIVE PushLoop(_)
PushLoop(w) == IF w.i < Len(w.chunk) THEN PushLoop(PushStep(w)) ELSE w

\* push(chunk) on an instance with fields e: the fields afterwards, the string
\* returned and the events delivered.
push(e, chunk) ==
    LET w == PushLoop(Work(e, chunk))
    IN [e |-> [w.e EXCEPT !.totalIndex = @ + Len(chunk)],
        ret |-> join(w.output), events |-> w.events]

E_UnquotedKey(w) ==
    IF w.e.inUnquotedKey /\ w.e.unquotedKey # <<>>
    THEN Push1(Push1(Push1(Report(w, "inserted_quote", w.e.totalIndex),
                           <<DQ>>), w.e.unquotedKey), <<DQ>> \o W_nullMember)
    ELSE w

\* Only the missing tail of an incomplete literal is appended. What an
\* inherited key finds has no slice method: the call throws a TypeError, after
\* the event and before any field is changed.
E_Value(w) ==
    IF w.e.inValue /\ w.e.currentValue # <<>>
    THEN LET v == w.e.currentValue
         IN IF isOwnKey(v)
            THEN [Push1(Report(w, "fixed_literal", w.e.totalIndex),
                        Drop(completionElement(v), Len(v)))
                    EXCEPT !.e.inValue = FALSE, !.e.expectingValue = FALSE,
                           !.e.currentValue = <<>>]
            ELSE IF hasCompletion(v)
            THEN [Report(w, "fixed_literal", w.e.totalIndex) EXCEPT !.threw = TRUE]
            ELSE [w EXCEPT !.e.inValue = FALSE, !.e.expectingValue = FALSE,
                           !.e.currentValue = <<>>]
    ELSE w

E_String(w) ==
    IF ~w.e.inString THEN w
    ELSE LET w1 == [Push1(w, <<DQ>>) EXCEPT !.e.stack = pop(@)]
         IN IF w1.e.inObjectKey \/ w1.e.expectingKeyOrEnd
            THEN Push1(Report(w1, "inserted_value", w.e.totalIndex), W_nullMember)
            ELSE w1

E_NeedsColon(w) ==
    IF w.e.needsColon
    THEN Push1(Report(w, "inserted_value", w.e.totalIndex), W_nullMember)
    ELSE w

E_ExpectingValue(w) ==
    IF w.e.expectingValue /\ ~w.e.inString /\ ~w.e.inValue
    THEN Push1(Report(w, "inserted_value", w.e.totalIndex), W_null)
    ELSE w

RECURSIVE E_CloseOutermostFirst(_)
\* A faulty closing loop, for the sensitivity check of C12: the stack is
\* emptied from the bottom, so the outermost context is closed first.
E_CloseOutermostFirst(w) ==
    IF w.e.stack = <<>> THEN w
    ELSE LET ctx == Head(w.e.stack)
             w1 == [w EXCEPT !.e.stack = Tail(@)]
         IN E_CloseOutermostFirst(
              IF ctx = OBJECT
              THEN Push1(Report(w1, "closed_object", w.e.totalIndex), <<"}">>)
              ELSE IF ctx = ARRAY
              THEN Push1(Report(w1, "closed_array", w.e.totalIndex), <<"]">>)
              ELSE w1)

RECURSIVE E_CloseAllOneKind(_)
\* A faulty closing loop, for the sensitivity check of C20: every closer is
\* reported as closed_object.
E_CloseAllOneKind(w) ==
    IF w.e.stack = <<>> THEN w
    ELSE LET ctx == top(w.e.stack)
             w1 == [w EXCEPT !.e.stack = pop(@)]
         IN E_CloseAllOneKind(
              IF ctx = OBJECT
              THEN Push1(Report(w1, "closed_object", w.e.totalIndex), <<"}">>)
              ELSE IF ctx = ARRAY
              THEN Push1(Report(w1, "closed_object", w.e.totalIndex), <<"]">>)
              ELSE w1)

RECURSIVE E_CloseAll(_)
E_CloseAll(w) ==
    IF w.e.stack = <<>> THEN w
    ELSE LET ctx == top(w.e.stack)
             w1 == [w EXCEPT !.e.stack = pop(@)]
         IN E_CloseAll(
              IF ctx = OBJECT
              THEN Push1(Report(w1, "closed_object", w.e.totalIndex), <<"}">>)
              ELSE IF ctx = ARRAY
              THEN Push1(Report(w1, "closed_array", w.e.totalIndex), <<"]">>)
              ELSE w1)

\* end() on an instance with fields e: the fields afterwards, the string
\* returned, the events delivered, and whether the call threw instead of
\* returning.
end(e) ==
    LET v == E_Value(E_UnquotedKey(Work(e, <<>>)))
        w == E_CloseAll(E_ExpectingValue(E_NeedsColon(E_String(v))))
    IN IF v.threw
       THEN [e |-> v.e, ret |-> <<>>, events |-> v.events, threw |-> TRUE]
       ELSE [e |-> w.e,
             ret |-> IF w.e.rootElementCount > 1
                     THEN <<"[">> \o join(w.output) \o <<"]">>
                     ELSE join(w.output),
             events |-> w.events, threw |-> FALSE]

\* A faulty snapshot, for the sensitivity check of C8: end() without the
\* restore.
snapshotWithoutRestore(e) == end(e)

\* snapshot(): end() between a save and a restore of six fields; when end()
\* throws, the restore is not reached.
snapshot(e) ==
    LET r == end(e)
    IN IF r.threw THEN r
       ELSE [e |-> [r.e EXCEPT !.stack = e.stack, !.inString = e.inString,
                               !.needsColon = e.needsColon,
                               !.expectingValue = e.expectingValue,
                               !.inValue = e.inValue,
                               !.currentValue = e.currentValue],
             ret |-> r.ret, events |-> r.events, threw |-> FALSE]

\* A faulty reset, for the sensitivity check of C10: the position counter and
\* the root count are kept.
resetKeepingCounters(e) ==
    [e EXCEPT !.stack = <<>>, !.inString = FALSE, !.stringQuote = DQ,
              !.escaped = FALSE, !.inObjectKey = FALSE, !.needsColon = FALSE,
              !.expectingValue = FALSE, !.expectingKeyOrEnd = FALSE,
              !.inValue = FALSE, !.currentValue = <<>>,
              !.inUnquotedKey = FALSE, !.unquotedKey = <<>>,
              !.inSingleLineComment = FALSE, !.inMultiLineComment = FALSE,
              !.justClosedString = FALSE]

\* reset(): every field but the callback gets its initial value.
reset(e) ==
    [e EXCEPT !.stack = <<>>, !.inString = FALSE, !.stringQuote = DQ,
              !.escaped = FALSE, !.inObjectKey = FALSE, !.needsColon = FALSE,
              !.expectingValue = FALSE, !.expectingKeyOrEnd = FALSE,
              !.inValue = FALSE, !.currentValue = <<>>,
              !.inUnquotedKey = FALSE, !.unquotedKey = <<>>,
              !.inSingleLineComment = FALSE, !.inMultiLineComment = FALSE,
              !.justClosedString = FALSE, !.rootElementCount = 0,
              !.totalIndex = 0]

---------------------------------------------------------------------------
(* Bounded input sets                                                      *)

RECURSIVE Strings(_, _)
\* The strings over alphabet A of length at most n.
Strings(A, n) ==
    IF n = 0 THEN {<<>>}
    ELSE LET shorter == Strings(A, n - 1)
         IN shorter \cup {Append(s, c) : s \in {x \in shorter : Len(x) = n - 1}, c \in A}

Repeat(c, n) == [k \in 1..n |-> c]

Prefixes(T) == UNION {{Take(x, k) : k \in 0..Len(x)} : x \in T}

\* Valid JSON texts, generated from the grammar by weight: a plain scalar, an
\* empty array and an empty object weigh 1, a rich scalar weighs 2, an array or
\* object weighs 1 plus its elements. Three layouts: compact, spaced, and
\* spread over lines.
MaxWeight == 3

Layouts == {"compact", "spaced", "lines"}
comma(lay) == CASE lay = "compact" -> <<",">>
                [] lay = "spaced" -> <<",", SP>>
                [] OTHER -> <<",", LF, TAB>>
colon(lay) == CASE lay = "compact" -> <<":">>
                [] lay = "spaced" -> <<":", SP>>
                [] OTHER -> <<SP, ":", SP>>
padOpen(lay) == IF lay = "lines" THEN <<CR, LF>> ELSE <<>>
padClose(lay) == IF lay = "lines" THEN <<LF>> ELSE <<>>

PlainScalars == { <<"1", "2">>, W_true, <<DQ, "a", DQ>> }
RichScalars ==
    { <<"-", "0", ".", "5", "e", "+", "1">>, <<"0">>, <<"3", "E", "2">>,
      W_false, W_null,
      <<DQ, DQ>>,
      <<DQ, "a", BSL, DQ, "b", DQ>>,
      <<DQ, BSL, BSL, DQ>>,
      <<DQ, BSL, "u", "0", "0", "e", "9", DQ>>,
      <<DQ, "[", "{", ",", ":", "/", "/", SP, "+", DQ>>,
      <<DQ, "t", "r", SQ, "}", "]", DQ>> }
KeyNames == <<"a", "b", "c", "d", "e", "f", "g", "h">>
keyText(k) == <<DQ, KeyNames[k], DQ>>

RECURSIVE joinWith(_, _)
joinWith(l, sep) ==
    IF Len(l) = 1 THEN l[1] ELSE l[1] \o sep \o joinWith(Tail(l), sep)

arrayText(l, lay) == <<"[">> \o padOpen(lay) \o joinWith(l, comma(lay)) \o padClose(lay) \o <<"]">>
objectText(l, lay) ==
    <<"{">> \o padOpen(lay)
    \o joinWith([k \in 1..Len(l) |-> keyText(k) \o colon(lay) \o l[k]], comma(lay))
    \o padClose(lay) \o <<"}">>

RECURSIVE JsonOfWeight(_, _), JsonLists(_, _)
\* The value texts of weight w in layout lay.
JsonOfWeight(w, lay) ==
    IF w = 1 THEN PlainScalars \cup {<<"[", "]">>, <<"{", "}">>}
    ELSE (IF w = 2 THEN RichScalars ELSE {})
         \cup {arrayText(l, lay) : l \in JsonLists(w - 1, lay)}
         \cup {objectText(l, lay) : l \in JsonLists(w - 1, lay)}

\* The non-empty lists of value texts of total weight m.
JsonLists(m, lay) ==
    {<<v>> : v \in JsonOfWeight(m, lay)}
    \cup UNION {{<<v>> \o r : v \in JsonOfWeight(j, lay), r \in JsonLists(m - j, lay)}
                : j \in 1..(m - 1)}

JsonTexts ==
    UNION {JsonOfWeight(w, lay) : w \in 1..MaxWeight, lay \in Layouts}
    \cup {<<SP>> \o v \o <<LF>> : v \in JsonOfWeight(1, "compact")}

JsonPrefixes == Prefixes(JsonTexts)

\* Arbitrary text: every string up to MaxLen over a core alphabet, and runs of
\* one repeated character (punctuation, garbage, white space) up to MaxRepeat.
MaxLen == 4
MaxRepeat == 6

CoreAlphabet == {"{", "}", "[", "]", DQ, ":", ",", "t", SP}
WideAlphabet ==
    CoreAlphabet \cup {SQ, "/", "*", ".", ";", "~", BSL, "(", ")", "+", "-", "0",
                       "x", "_", LF, TAB, NBSP, LDQ, BT, "U+0000"}

BatchInputs ==
    Strings(CoreAlphabet, MaxLen)
    \cup {Repeat(c, n) : c \in WideAlphabet, n \in 1..MaxRepeat}

---------------------------------------------------------------------------
(* Batch run: one call of repairJson as start / scan loop / finalisation   *)

Idle == BatchInit(<<>>)

BatchStart(inputs) ==
    /\ input \in inputs
    /\ pc = "start"
    /\ bat = Idle
    /\ result = <<>>
    /\ steps = 0

\* The early return for blank input; otherwise preprocessing and the locals.
Start ==
    /\ pc = "start"
    /\ IF isBlank(input)
       THEN pc' = "done" /\ bat' = bat
       ELSE pc' = "scan" /\ bat' = BatchInit(preprocessJson(input))
    /\ result' = <<>>
    /\ UNCHANGED <<input, steps>>
    /\ UNCHANGED incVars
    /\ UNCHANGED <<tr, ex>>

\* One iteration of the for loop.
ScanStep ==
    /\ pc = "scan"
    /\ bat.i < len(bat)
    /\ bat' = BatchStep(bat)
    /\ steps' = steps + 1
    /\ UNCHANGED <<input, pc, result>>
    /\ UNCHANGED incVars
    /\ UNCHANGED <<tr, ex>>

\* The loop has ended: finalise and return.
Finish ==
    /\ pc = "scan"
    /\ bat.i >= len(bat)
    /\ bat' = Finalize(bat)
    /\ result' = Returned(bat')
    /\ pc' = "done"
    /\ UNCHANGED <<input, steps>>
    /\ UNCHANGED incVars
    /\ UNCHANGED <<tr, ex>>

NextBatch == Start \/ ScanStep \/ Finish

---------------------------------------------------------------------------
(* One IncrementalJsonRepair instance and the calls made on it. The caller *)
(* follows the documented protocol of one instance per stream: push until  *)
(* the stream ends, end(), and reset() before the instance is used again;  *)
(* snapshot() at any time.                                                 *)

MaxStream == 4      \* characters pushed in one stream of arbitrary text
MaxChunk == 2       \* characters in one chunk
MaxEnds == 2        \* end() calls in one stream

IncAlphabet == {"{", "}", "[", "]", DQ, ":", ",", "t"}
Chunks == Strings(IncAlphabet, MaxChunk)

\* The valid JSON texts that are streamed: those of at most MaxText characters.
MaxText == 14
StreamTexts == {x \in JsonTexts : Len(x) <= MaxText}

\* No stream adapter has been created.
NoAdapter == [adapter |-> "none"]

\* No extraction function has been called.
NoCall == [fn |-> "none"]

\* new IncrementalJsonRepair(): callback tells whether options.onRepair is
\* given.
EngineNew(callback) ==
    /\ tr = NoAdapter
    /\ ex = NoCall
    /\ inc = EngineInit(callback)
    /\ pushed = <<>>
    /\ out = <<>>
    /\ closing = <<>>
    /\ lastOp = "new"
    /\ ends = 0
    /\ discarded = 0
    /\ log = <<>>

EngineStart == EngineNew(FALSE)

BatchIdle ==
    /\ input = <<>>
    /\ pc = "idle"
    /\ bat = Idle
    /\ result = <<>>
    /\ steps = 0

\* push(chunk): its result is appended to out.
Push(chunk) ==
    /\ ends = 0
    /\ LET r == push(inc, chunk)
       IN inc' = r.e /\ out' = out \o r.ret /\ log' = r.events
    /\ pushed' = pushed \o chunk
    /\ closing' = <<>>
    /\ lastOp' = "push"
    /\ discarded' = 0
    /\ UNCHANGED ends
    /\ UNCHANGED batchVars
    /\ UNCHANGED <<tr, ex>>

\* end()
End ==
    /\ ends < MaxEnds
    /\ LET r == end(inc)
       IN inc' = r.e /\ closing' = r.ret /\ log' = r.events
    /\ ends' = ends + 1
    /\ lastOp' = IF end(inc).threw THEN "throw" ELSE "end"
    /\ discarded' = 0
    /\ UNCHANGED <<pushed, out>>
    /\ UNCHANGED batchVars
    /\ UNCHANGED <<tr, ex>>

\* snapshot()
Snapshot ==
    /\ LET r == snapshot(inc)
       IN inc' = r.e /\ closing' = r.ret /\ log' = r.events
    /\ lastOp' = IF snapshot(inc).threw THEN "throw" ELSE "snapshot"
    /\ discarded' = 0
    /\ UNCHANGED <<pushed, out, ends>>
    /\ UNCHANGED batchVars
    /\ UNCHANGED <<tr, ex>>

\* reset(): a new stream starts.
Reset ==
    /\ inc' = reset(inc)
    /\ pushed' = <<>>
    /\ out' = <<>>
    /\ closing' = <<>>
    /\ ends' = 0
    /\ lastOp' = "reset"
    /\ discarded' = inc.totalIndex
    /\ log' = <<>>
    /\ UNCHANGED batchVars
    /\ UNCHANGED <<tr, ex>>

\* Any chunk, as long as the stream stays within MaxStream.
PushAny ==
    \E chunk \in Chunks :
        /\ Len(pushed) + Len(chunk) <= MaxStream
        /\ Push(chunk)

\* A chunk that keeps the stream a prefix of one of the valid JSON texts
\* that are streamed.
PushJson ==
    \E v \in {x \in StreamTexts : /\ Len(x) >= Len(pushed)
                                  /\ Take(x, Len(pushed)) = pushed} :
        \E k \in 0..MaxChunk :
            /\ Len(pushed) + k <= Len(v)
            /\ Push(SubSeq(v, Len(pushed) + 1, Len(pushed) + k))

NextInc == PushAny \/ End \/ Snapshot \/ Reset
NextIncJson == PushJson \/ End \/ Snapshot \/ Reset

---------------------------------------------------------------------------
(* Specifications                                                          *)

InitBatch == BatchStart(BatchInputs) /\ EngineStart
InitJson == BatchStart(JsonPrefixes) /\ EngineStart
InitInc == EngineStart /\ BatchIdle

\* repairJson on arbitrary text.
SpecBatch == InitBatch /\ [][NextBatch]_vars

\* repairJson on valid JSON texts and on their prefixes.
SpecJson == InitJson /\ [][NextBatch]_vars

\* One incremental instance fed arbitrary chunks.
SpecInc == InitInc /\ [][NextInc]_vars

\* One incremental instance fed a valid JSON text in arbitrary chunks.
SpecIncJson == InitInc /\ [][NextIncJson]_vars

Spec == SpecInc

---------------------------------------------------------------------------
(* Properties of the batch repair                                          *)

RECURSIVE stripOuterSpace(_, _, _)
\* Text t without the JSON white space that lies outside its string literals.
stripOuterSpace(t, inStr, esc) ==
    IF t = <<>> THEN <<>>
    ELSE LET c == Head(t)
         IN IF inStr
            THEN <<c>> \o stripOuterSpace(Tail(t), esc \/ c # DQ, ~esc /\ c = BSL)
            ELSE IF c \in JsonSpace
            THEN stripOuterSpace(Tail(t), FALSE, FALSE)
            ELSE <<c>> \o stripOuterSpace(Tail(t), c = DQ, FALSE)

compact(t) == stripOuterSpace(t, FALSE, FALSE)

\* C2 as stated: for every input string S, repairJson(S) is the empty string
\* or a text that parses as JSON. Refuted under SpecBatch, e.g. by S = "{[",
\* which is returned as "{[]}".
C2_OutputValid == pc = "done" => (result = <<>> \/ IsJson(result))

\* C3: repairJson handles every input without getting stuck or failing: the
\* call is always at one of its three positions; during the scan the
\* iteration on the current character is defined and moves the scan position
\* forward; the position never passes the end of the text, so the loop makes
\* at most |S| iterations; and once the call has returned the context stack
\* is empty.
C3_Total ==
    /\ pc \in {"start", "scan", "done"}
    /\ pc = "scan" /\ bat.i < len(bat) =>
          /\ BatchStep(bat).i > bat.i
          /\ BatchStep(bat).i <= len(bat)
    /\ steps <= bat.i
    /\ bat.i <= len(bat)
    /\ len(bat) <= Len(input)
    /\ pc = "done" => bat.stack = <<>>

\* A call on text that opens two nested contexts has returned after scanning
\* at least three characters.
C3_Witness ==
    /\ pc = "done"
    /\ steps >= 3
    /\ Len(input) >= 3
    /\ input[1] \in {"[", "{"}
    /\ input[2] \in {"[", "{"}

\* C4: for every valid JSON text V, repairJson(V) is a JSON text with the
\* value of V, and differs from V at most in white space outside strings.
C4_ValidPassesThrough ==
    pc = "done" /\ IsJson(input) =>
        /\ IsJson(result)
        /\ JsonValue(result) = JsonValue(input)
        /\ compact(result) = compact(input)

\* A valid object spread over lines, holding white space outside strings,
\* has been repaired.
C4_Witness ==
    /\ pc = "done"
    /\ IsJson(input)
    /\ Len(input) > 10
    /\ input[1] = "{"
    /\ compact(input) # input

\* C5 as stated: for every prefix P of a valid JSON text, repairJson(P) is
\* empty or parses as JSON. Refuted under SpecJson, e.g. by P = "[-",
\* which is returned as "[-]".
C5_PrefixRepairsToJson ==
    pc = "done" /\ input \in JsonPrefixes => (result = <<>> \/ IsJson(result))

---------------------------------------------------------------------------
(* Properties of the incremental engine                                    *)

\* The stream is complete: its one end() call is the last call made.
StreamEnded == lastOp = "end" /\ ends = 1

\* C1 as stated: for every text S and every partition of S into chunks, the
\* push results followed by the end() result equal the output of the batch
\* automaton on S. Refuted under SpecInc, e.g. by S = "[t," pushed as one
\* chunk: the engine yields "[true,]", the automaton "[true]".
C1_ChunkingEqualsBatch == StreamEnded => out \o closing = Automaton(pushed)

\* C6 as stated: for every prefix P of a valid JSON text (blank prefixes left
\* aside) and every partition of P into chunks, the push results followed by
\* the end() result parse as JSON. Refuted under SpecIncJson, e.g. by
\* P = "[12," which yields "[12,]".
C6_StreamedPrefixIsJson ==
    StreamEnded /\ ~isBlank(pushed) => IsJson(out \o closing)

\* C7: for every complete valid JSON text V and every partition of V into
\* chunks, end() returns the empty string and the push results are a JSON
\* text with the value of V.
C7_CompleteTextStreams ==
    StreamEnded /\ pushed \in JsonTexts =>
        /\ closing = <<>>
        /\ IsJson(out \o closing)
        /\ JsonValue(out \o closing) = JsonValue(pushed)

\* A valid object of more than ten characters has been streamed and ended.
C7_Witness ==
    /\ StreamEnded
    /\ pushed \in JsonTexts
    /\ Len(pushed) > 10
    /\ pushed[1] = "{"

\* C8: a snapshot() call returns the string end() would return in the state
\* it is called in, and leaves every field of the engine as it was.
C8_SnapshotIsPureEnd ==
    [][lastOp' = "snapshot" => inc' = inc /\ closing' = end(inc).ret]_vars

\* snapshot() has been called where end() completes a literal and closes an
\* object, that is where end() changes the fields snapshot() restores.
C8_Witness ==
    /\ lastOp = "snapshot"
    /\ inc.inValue
    /\ inc.expectingValue
    /\ inc.currentValue = <<"t">>
    /\ inc.stack = <<OBJECT>>
    /\ closing = <<"r", "u", "e", "}">>

\* C9 as stated: after pushes of a non-blank prefix of valid JSON the string
\* snapshot() returns is by itself a JSON text. Refuted under SpecIncJson:
\* after push of "[12" snapshot() returns "]", the closing fragment alone.
C9_SnapshotIsWholeJson ==
    lastOp = "snapshot" /\ ends = 0 /\ ~isBlank(pushed) => IsJson(closing)

\* C10: after reset() every field of the engine has the value it has in a
\* newly constructed instance with the same callback; in particular the
\* position that events are reported at is 0 again.
C10_ResetIsFresh ==
    lastOp = "reset" =>
        /\ inc = EngineInit(inc.onRepair)
        /\ inc.totalIndex = 0

\* reset() has been called on an engine that had consumed a whole stream.
C10_Witness == lastOp = "reset" /\ discarded = MaxStream

---------------------------------------------------------------------------
(* Literal and number tokens in value position                             *)

\* Tokens: every non-empty prefix of the six words, numbers, words that are no
\* prefix of any of them, and names that Object.prototype defines.
LiteralWords == {W_true, W_false, W_null, W_True, W_False, W_None}
OtherTokens ==
    { <<"1", "2">>, <<"-", "0", ".", "5", "e", "+", "1">>, <<"x">>, <<"t", "x">>,
      <<"t", "r", "u", "e", "e">>, <<"n", "u", "l", "l", "s">>,
      <<"T", "R", "U", "E">>, <<"N", "o", "n", "e", "s">>,
      <<"v", "a", "l", "u", "e", "O", "f">>, <<"c", "o", "n", "s", "t", "r", "u", "c", "t", "o", "r">> }
ValueTokens == (Prefixes(LiteralWords) \ {<<>>}) \cup OtherTokens

\* What C11 says a token becomes: the complete lowercase literal for a
\* non-empty proper prefix of true, false, null and for a non-empty prefix of
\* True, False, None; itself otherwise.
expectedToken(tok) ==
    IF tok = <<>> THEN tok
    ELSE IF \E n \in 1..3 : tok = Take(W_true, n) THEN W_true
    ELSE IF \E n \in 1..4 : tok = Take(W_false, n) THEN W_false
    ELSE IF \E n \in 1..3 : tok = Take(W_null, n) THEN W_null
    ELSE IF \E n \in 1..4 : tok = Take(W_True, n) THEN W_true
    ELSE IF \E n \in 1..5 : tok = Take(W_False, n) THEN W_false
    ELSE IF \E n \in 1..4 : tok = Take(W_None, n) THEN W_null
    ELSE tok

\* The places a token is put in: the text before and after it, and what these
\* two are repaired to. The token ends at a terminator or at the end of input.
TokenPlaces ==
    { [pre |-> <<>>, post |-> <<>>, outPre |-> <<>>, outPost |-> <<>>],
      [pre |-> <<"[">>, post |-> <<>>, outPre |-> <<"[">>, outPost |-> <<"]">>],
      [pre |-> <<"[">>, post |-> <<"]">>, outPre |-> <<"[">>, outPost |-> <<"]">>],
      [pre |-> <<"[">>, post |-> <<SP, "]">>, outPre |-> <<"[">>, outPost |-> <<SP, "]">>],
      [pre |-> <<"[">>, post |-> <<",", "1", "]">>,
       outPre |-> <<"[">>, outPost |-> <<",", "1", "]">>],
      [pre |-> <<"{", DQ, "a", DQ, ":">>, post |-> <<"}">>,
       outPre |-> <<"{", DQ, "a", DQ, ":">>, outPost |-> <<"}">>],
      [pre |-> <<"{", DQ, "a", DQ, ":", SP>>, post |-> <<>>,
       outPre |-> <<"{", DQ, "a", DQ, ":", SP>>, outPost |-> <<"}">>] }

LiteralCases ==
    { [text |-> pl.pre \o tok \o pl.post,
       expected |-> pl.outPre \o expectedToken(tok) \o pl.outPost,
       token |-> tok]
      : pl \in TokenPlaces, tok \in ValueTokens }

LiteralInputs == {c.text : c \in LiteralCases}

InitLiteral == BatchStart(LiteralInputs) /\ EngineStart

\* repairJson on one token in value position.
SpecLiteral == InitLiteral /\ [][NextBatch]_vars

\* C11 as stated: a token in value position that ends at a terminator or at
\* the end of input is replaced by the complete lowercase literal exactly when
\* it is a non-empty proper prefix of true, false, null or a non-empty prefix
\* of True, False, None, and is otherwise left as it is. Refuted under
\* SpecLiteral by the token valueOf: "[valueOf]" is returned as "[]".
C11_LiteralCompletion ==
    \A c \in LiteralCases : pc = "done" /\ input = c.text => result = c.expected

---------------------------------------------------------------------------
(* The same text given to repairJson and, in chunks, to an engine          *)

MaxNest == 4        \* characters of a text of brackets, braces and quotes

NestAlphabet == {"{", "}", "[", "]", DQ}
Example_OpenArray ==
    <<"{", DQ, "a", DQ, ":", SP, "[", "1", ",", SP, "2", ",", SP, "3">>
NestInputs == Strings(NestAlphabet, MaxNest) \cup {Example_OpenArray}

\* The next chunk of the input, once repairJson has returned.
PushNext ==
    /\ pc = "done"
    /\ \E k \in 1..MaxChunk :
          /\ Len(pushed) + k <= Len(input)
          /\ Push(SubSeq(input, Len(pushed) + 1, Len(pushed) + k))

\* end() after the whole input.
EndStream ==
    /\ pc = "done"
    /\ pushed = input
    /\ End

NextBoth == Start \/ ScanStep \/ Finish \/ PushNext \/ EndStream

InitNest == BatchStart(NestInputs) /\ EngineStart

\* repairJson on a text of nested openers and closers, then one engine fed
\* the same text.
SpecNest == InitNest /\ [][NextBoth]_vars

closerOf(ctx) == IF ctx = OBJECT THEN <<"}">> ELSE IF ctx = ARRAY THEN <<"]">> ELSE <<>>

RECURSIVE closersFor(_)
\* One closer per OBJECT or ARRAY entry of the stack, innermost (last) first.
closersFor(stack) ==
    IF stack = <<>> THEN <<>> ELSE closerOf(Last(stack)) \o closersFor(Front(stack))

---------------------------------------------------------------------------
(* Several complete top-level values in one input (NDJSON)                 *)

MaxRoots == 3       \* top-level values in one input

RootValues ==
    { <<"{", "}">>, <<"[", "]">>,
      <<"{", DQ, "a", DQ, ":", SP, "1", "}">>,
      <<"[", "1", ",", SP, "2", "]">>,
      <<"{", DQ, "b", DQ, ":", DQ, "}", "]", DQ, "}">> }
RootSeparators == { <<LF>>, <<CR, LF>>, <<LF, SP, LF>>, <<NBSP>> }

\* The inputs of k >= 2 values with one separator between neighbours, each
\* with the text the values and the commas make up.
RootCases ==
    UNION {{ [text     |-> joinWith(parts, sep),
              expected |-> <<"[">> \o joinWith(parts, Repeat(SP, Len(sep)) \o <<",">>) \o <<"]">>,
              parts    |-> parts]
             : parts \in [1..k -> RootValues], sep \in RootSeparators }
           : k \in 2..MaxRoots}
RootInputs == {c.text : c \in RootCases}

InitRoots == BatchStart(RootInputs) /\ EngineStart

\* repairJson on every such input.
SpecRoots == InitRoots /\ [][NextBatch]_vars

\* C13: k >= 2 complete objects or arrays separated by white space come back
\* with a comma before each value after the first and '[' ']' around the
\* whole, the separators kept as spaces, and the result parses to the array
\* of the k values in input order.
C13_RootsBecomeArray ==
    pc = "done" =>
        \A c \in RootCases :
            input = c.text =>
            /\ result = c.expected
            /\ parseJson(result) =
                   Parsed(Len(result) + 1,
                          Node("array", <<>>, [j \in 1..Len(c.parts) |-> JsonValue(c.parts[j])]))

\* Three lines of NDJSON have been repaired into one array of three values.
C13_Witness ==
    /\ pc = "done"
    /\ input = <<"{", DQ, "a", DQ, ":", SP, "1", "}", LF,
                 "[", "1", ",", SP, "2", "]", LF, "{", "}">>
    /\ result = <<"[", "{", DQ, "a", DQ, ":", SP, "1", "}", SP, ",",
                  "[", "1", ",", SP, "2", "]", SP, ",", "{", "}", "]">>
    /\ bat.rootElementCount = 3

---------------------------------------------------------------------------
(* A comma left at the end of the output when a closer is written or the   *)
(* input ends                                                              *)

\* Open texts that are written unchanged, each with the closers it lacks.
CommaBodies ==
    { [text |-> <<"[", "1", ",", SP, "2", ",", SP, "3">>, closers |-> <<"]">>],
      [text |-> <<"[", "1", ",", SP, "2">>, closers |-> <<"]">>],
      [text |-> <<"{", DQ, "a", DQ, ":", SP, "1">>, closers |-> <<"}">>],
      [text |-> <<"[", "1", ",">>, closers |-> <<"]">>],
      [text |-> <<"[", DQ, "a", ",", DQ>>, closers |-> <<"]">>],
      [text |-> <<"[", "[", "1", "]">>, closers |-> <<"]">>],
      [text |-> <<"{", DQ, "a", DQ, ":", "[", "1", ",", "2">>, closers |-> <<"]", "}">>] }

\* What may stand between the comma and the closer or the end while the
\* comma stays the last character of the output that is not white space:
\* white space, comments, an ellipsis, and a word that is written as nothing;
\* each with what is written for it.
CommaGaps ==
    { [text |-> <<>>, out |-> <<>>, word |-> FALSE],
      [text |-> <<SP>>, out |-> <<SP>>, word |-> FALSE],
      [text |-> <<TAB, LF>>, out |-> <<SP, SP>>, word |-> FALSE],
      [text |-> <<"/", "*", "c", "*", "/">>, out |-> <<>>, word |-> FALSE],
      [text |-> <<"/", "/", "c", LF>>, out |-> <<LF>>, word |-> FALSE],
      [text |-> <<".", ".", ".">>, out |-> <<>>, word |-> FALSE],
      [text |-> <<"v", "a", "l", "u", "e", "O", "f">>, out |-> <<>>, word |-> TRUE],
      [text |-> <<"c", "o", "n", "s", "t", "r", "u", "c", "t", "o", "r">>, out |-> <<>>, word |-> TRUE] }

\* body , gap, then the first typed of the missing closers (none: the input
\* ends there); expected is the output without that one comma.
CommaCases ==
    UNION {{ [text     |-> b.text \o <<",">> \o g.text \o Take(b.closers, typed),
              expected |-> b.text \o g.out \o b.closers]
             : g \in {x \in CommaGaps : x.word => b.closers[1] = "]"},
               typed \in 0..Len(b.closers) }
           : b \in CommaBodies}
CommaInputs == {c.text : c \in CommaCases}

InitComma == BatchStart(CommaInputs) /\ EngineStart

\* repairJson on every such input.
SpecComma == InitComma /\ [][NextBatch]_vars

\* C14: a comma that is the last character of the output other than white
\* space when a '}' or ']' is written, or when the input ends, is deleted
\* before the closer is appended; nothing else is removed, the white space
\* after it stays.
C14_TrailingCommaRemoved ==
    pc = "done" =>
        \A c \in CommaCases : input = c.text => result = c.expected

---------------------------------------------------------------------------
(* Identifiers where an object key is expected                             *)

KeyIdentifiers ==
    { <<"n", "a", "m", "e">>, <<"_", "a", "$", "1">>, <<"b", "2">>, <<"$">>, W_true,
      <<"N", "u", "m", "b", "e", "r", "L", "o", "n", "g">>,
      <<"O", "b", "j", "e", "c", "t", "I", "d">> }

\* The places of a key: after '{' and after the ',' of a member.
KeyPlaces ==
    { <<"{">>,
      <<"{", DQ, "x", DQ, ":", "1", ",">>,
      <<"{", DQ, "x", DQ, ":", SP, "1", ",", SP>> }

\* What follows the identifier, with what is written for it after any key:
\* the terminator is handled as it is after every other key.
KeyRests ==
    { [text |-> <<":", SP, SQ, "J", "o", "h", "n", SQ, "}">>,
       out  |-> <<":", SP, DQ, "J", "o", "h", "n", DQ, "}">>],
      [text |-> <<":", "1", "}">>, out |-> <<":", "1", "}">>],
      [text |-> <<SP, ":", SP, "1", "}">>, out |-> <<SP, ":", SP, "1", "}">>],
      [text |-> <<"}">>, out |-> W_nullMember \o <<"}">>],
      [text |-> <<"(", "1", ")", ":", SP, "2", "}">>, out |-> <<"(", "1", ")", SP, "2", "}">>],
      [text |-> <<>>, out |-> W_nullMember \o <<"}">>] }

KeyCases ==
    { [text     |-> p \o k \o r.text,
       expected |-> p \o <<DQ>> \o k \o <<DQ>> \o r.out]
      : p \in KeyPlaces, k \in KeyIdentifiers, r \in KeyRests }
KeyInputs == {c.text : c \in KeyCases}

InitKeys == BatchStart(KeyInputs) /\ EngineStart

\* repairJson on every such input.
SpecKeys == InitKeys /\ [][NextBatch]_vars

\* C15: an identifier read where a key is expected is written between double
\* quotes, unchanged, and its terminator is then handled as usual; when the
\* input ends inside the identifier, "key":null is written.
C15_IdentifierKeyQuoted ==
    pc = "done" =>
        \A c \in KeyCases : input = c.text => result = c.expected

---------------------------------------------------------------------------
(* Strings written with each of the quote glyphs                           *)

QuoteGlyphs == {DQ, SQ, LDQ, RDQ, LSQ, RSQ}

\* Where a string starts: alone, as an array element, as a member's value,
\* as a key.
StringPlaces ==
    { [pre |-> <<>>, post |-> <<>>],
      [pre |-> <<"[">>, post |-> <<"]">>],
      [pre |-> <<"[", "1", ",", SP>>, post |-> <<",", "2", "]">>],
      [pre |-> <<"{", DQ, "k", DQ, ":">>, post |-> <<"}">>],
      [pre |-> <<"{">>, post |-> <<":", "1", "}">>] }

\* The contents of a string opened by q: plain text, any glyph after a
\* backslash and, when q is the straight double quote, any other glyph bare.
stringBodies(q) ==
    { <<>>, <<"a">> }
    \cup { <<"a", BSL, g, "b">> : g \in QuoteGlyphs }
    \cup { <<"a", BSL, BSL, BSL, g>> : g \in QuoteGlyphs }
    \cup (IF q = DQ THEN { <<"i", "t", g, "s">> : g \in QuoteGlyphs \ {DQ} } ELSE {})

\* The glyphs that end a string opened by q, in the words of the claim.
stringClosers(q) == IF q = DQ THEN {DQ} ELSE QuoteGlyphs

QuoteCases ==
    UNION {{ [text     |-> p.pre \o <<q>> \o b \o <<c>> \o p.post,
              expected |-> p.pre \o <<DQ>> \o b \o <<DQ>> \o p.post,
              opener   |-> q,
              closer   |-> c]
             : p \in StringPlaces, b \in stringBodies(q), c \in stringClosers(q) }
           : q \in QuoteGlyphs}
QuoteInputs == {c.text : c \in QuoteCases}

InitQuotes == BatchStart(QuoteInputs) /\ EngineStart

\* repairJson on every such input.
SpecQuotes == InitQuotes /\ [][NextBatch]_vars

\* C16: each of the six quote glyphs opens a string and is written as '"';
\* a string opened by '"' ends only at an unescaped '"', a string opened by
\* another glyph ends at the first unescaped glyph of any of the six kinds;
\* the closing glyph is written as '"'.
C16_QuoteGlyphs ==
    pc = "done" =>
        \A c \in QuoteCases : input = c.text => result = c.expected

\* A string opened by a curly quote and closed by an apostrophe has been
\* written between straight double quotes.
C16_Witness ==
    /\ pc = "done"
    /\ input = <<"[", LDQ, "a", BSL, SQ, "b", SQ, "]">>
    /\ result = <<"[", DQ, "a", BSL, SQ, "b", DQ, "]">>

---------------------------------------------------------------------------
(* String segments joined by '+'                                           *)

MaxSegments == 3    \* string segments joined in one input

\* A segment: the glyph pair around it.
SegmentQuotes == { <<DQ, DQ>>, <<SQ, SQ>>, <<LDQ, RDQ>> }
SegmentTexts == <<"a", "b", "c", "d", "e">>

\* The operator with the white space allowed around it.
PlusGaps ==
    { <<"+">>, <<SP, "+", SP>>, <<"+", SP>>, <<SP, "+">>, <<TAB, "+", LF>>,
      <<SP, SP, "+", SP, SP>> }

ConcatPlaces ==
    { [pre |-> <<>>, post |-> <<>>],
      [pre |-> <<"[">>, post |-> <<"]">>],
      [pre |-> <<"{", DQ, "t", DQ, ":", SP>>, post |-> <<"}">>] }

ConcatCases ==
    UNION {{ [text     |-> p.pre
                           \o joinWith([j \in 1..k |-> <<qs[j][1], SegmentTexts[j], qs[j][2]>>], g)
                           \o p.post,
              expected |-> p.pre \o <<DQ>> \o SubSeq(SegmentTexts, 1, k) \o <<DQ>> \o p.post,
              quotes   |-> qs]
             : p \in ConcatPlaces, g \in PlusGaps, qs \in [1..k -> SegmentQuotes] }
           : k \in 2..MaxSegments}
ConcatInputs == {c.text : c \in ConcatCases}

InitConcat == BatchStart(ConcatInputs) /\ EngineStart

\* repairJson on every such input.
SpecConcat == InitConcat /\ [][NextBatch]_vars

\* C17: two or more string segments joined by '+', with optional white space
\* around it, are written as one string holding the segments' contents in
\* order; the operators, the quotes between and the white space are removed.
C17_SegmentsJoined ==
    pc = "done" =>
        \A c \in ConcatCases : input = c.text => result = c.expected

---------------------------------------------------------------------------
(* Wrapper calls around a scalar                                           *)

ScalarArguments ==
    { <<"1", "2", "3">>, <<"-", "0", ".", "5", "e", "+", "1">>, W_true, W_false, W_null,
      <<DQ, DQ>>,
      <<DQ, "5", "0", "7", "f", DQ>>,
      <<DQ, "a", BSL, DQ, "b", DQ>>,
      <<DQ, "(", "a", "|", "b", ")", DQ>>,
      <<DQ, "a", ")", DQ>>,
      <<DQ, "(", DQ>> }

WrapperPlaces ==
    { [pre |-> <<>>, post |-> <<>>],
      [pre |-> <<"{", DQ, "c", DQ, ":", SP>>, post |-> <<"}">>],
      [pre |-> <<"[">>, post |-> <<"]">>],
      [pre |-> <<"[", "1", ",", SP>>, post |-> <<",", SP, "2", "]">>] }

WrapperCases ==
    { [text     |-> p.pre \o W \o <<"(">> \o v \o <<")">> \o p.post,
       expected |-> p.pre \o v \o p.post,
       argument |-> v]
      : p \in WrapperPlaces, W \in MONGO_WRAPPERS, v \in ScalarArguments }
WrapperInputs == {c.text : c \in WrapperCases}

InitWrappers == BatchStart(WrapperInputs) /\ EngineStart

\* repairJson on every such input.
SpecWrappers == InitWrappers /\ [][NextBatch]_vars

\* C18: for each of the wrapper names W and each JSON scalar v, W(v) where a
\* value stands is replaced by v alone, and the automaton has left wrapper
\* mode when the call has been read.
C18_WrapperStripped ==
    pc = "done" =>
        \A c \in WrapperCases :
            input = c.text => result = c.expected /\ ~bat.inMongoWrapper

---------------------------------------------------------------------------
(* An instance with an onRepair callback                                   *)

InitObserved == EngineNew(TRUE) /\ BatchIdle

\* One incremental instance with a callback installed, fed arbitrary chunks.
\* The callback returns and does not call the instance.
SpecObserved == InitObserved /\ [][NextInc]_vars

\* The fields of e with no callback installed.
withoutCallback(e) == [e EXCEPT !.onRepair = FALSE]

\* C19: every call on an instance with a callback returns the string, and
\* leaves the fields, that the same call gives on the instance without the
\* callback (which gets no events); by induction over the calls the two
\* instances agree after every chunk sequence.
C19_CallbackDoesNotInterfere ==
    [][LET off == withoutCallback(inc)
       IN /\ lastOp' = "push" =>
                LET r == push(off, SubSeq(pushed', Len(pushed) + 1, Len(pushed')))
                IN /\ out' = out \o r.ret
                   /\ withoutCallback(inc') = r.e
                   /\ r.events = <<>>
          /\ lastOp' \in {"end", "throw"} /\ ends' = ends + 1 =>
                LET r == end(off)
                IN /\ closing' = r.ret
                   /\ withoutCallback(inc') = r.e
                   /\ r.threw = (lastOp' = "throw")
                   /\ r.events = <<>>
          /\ lastOp' \in {"snapshot", "throw"} /\ ends' = ends =>
                LET r == snapshot(off)
                IN /\ closing' = r.ret
                   /\ withoutCallback(inc') = r.e
                   /\ r.threw = (lastOp' = "throw")
                   /\ r.events = <<>>
          /\ lastOp' = "reset" => withoutCallback(inc') = reset(off)
      ]_vars

\* The callback has been handed events by a push and the stream went on to
\* its end().
C19_Witness ==
    /\ inc.onRepair
    /\ lastOp = "end"
    /\ pushed = <<"{", "t", "}">>
    /\ out = <<"{", DQ, "t", DQ, ":", "n", "u", "l", "l", "}">>
    /\ closing = <<>>

isCloseEvent(ev) == ev[1] \in {"closed_object", "closed_array"}
eventKindOf(closer) == IF closer = "]" THEN "closed_array" ELSE "closed_object"

---------------------------------------------------------------------------
(* The positions of the events of one stream                               *)

\* C21: the events a call hands to the callback carry positions that do not
\* decrease, none below the number of characters pushed before the call and
\* none above the number pushed by its end; the engine's counter is the
\* number of characters pushed. Call after call, the positions of a stream
\* therefore form a non-decreasing sequence within 0..pushed.
C21_PositionsMonotone ==
    [][lastOp' \in {"push", "end", "snapshot", "throw"} =>
        /\ inc.totalIndex = Len(pushed)
        /\ inc'.totalIndex = Len(pushed')
        /\ \A j \in 1..Len(log') :
              /\ log'[j][2] \in Len(pushed)..Len(pushed')
              /\ j > 1 => log'[j - 1][2] <= log'[j][2]
      ]_vars

\* The push that completed a stream of MaxStream characters has handed over
\* two events at different positions after position 0.
C21_Witness ==
    /\ inc.onRepair
    /\ lastOp = "push"
    /\ Len(log) >= 2
    /\ 0 < log[1][2]
    /\ log[1][2] < log[2][2]
    /\ Len(pushed) = MaxStream

---------------------------------------------------------------------------
(* repairJson called with a callback as second argument                    *)

\* The calls repairJson(text, onRepair) makes of onRepair, as <<kind, index>>
\* pairs: the function declares the one parameter input and its body holds
\* no call of a callback, so a second argument is never called.
onRepairCalls(text) == <<>>

\* Inputs that need a repair, each with the kind of event it calls for.
ReportCases ==
    { [text |-> <<"{", DQ, "a", DQ, ":", SP, "[", "1", ",", SP, "2">>,
       kind |-> "closed_array"],
      [text |-> <<"{", DQ, "a", DQ, ":", SP, "[", "1", ",", SP, "2">>,
       kind |-> "closed_object"],
      [text |-> <<"{", "n", "a", "m", "e", ":", SP, DQ, "J", "o", "h", "n", DQ, "}">>,
       kind |-> "inserted_quote"],
      [text |-> <<"{", DQ, "a", DQ, ":", SP, "1", ",", SP, DQ, "b", DQ, ":", SP, "2">>,
       kind |-> "closed_object"],
      [text |-> <<"{", DQ, "a", DQ, ":", SP, "T", "r", "u", "}">>,
       kind |-> "fixed_literal"],
      [text |-> <<"{", DQ, "a", DQ, ":", "1", "}", LF, "{", DQ, "b", DQ, ":", "2", "}">>,
       kind |-> "missing_comma"],
      [text |-> <<"{", "{", SP, DQ, "a", DQ, ":", SP, "1", SP, "}", "}">>,
       kind |-> "synthetic_key"],
      [text |-> <<"{", DQ, "a", DQ, ":", SP, "1", ",">>,
       kind |-> "closed_object"],
      [text |-> <<"[", "1", ",", SP, "2">>,
       kind |-> "closed_array"],
      [text |-> <<"{", DQ, "a", DQ, ":", SP, "t", "r", "u">>,
       kind |-> "fixed_literal"],
      [text |-> <<"{", "{", SP, DQ, "a", DQ, ":", SP, "[", "1", ",", SP, "2">>,
       kind |-> "synthetic_key"] }
ReportInputs == {c.text : c \in ReportCases}

InitReport == BatchStart(ReportInputs) /\ EngineStart

\* repairJson(text, onRepair) on every such input.
SpecReport == InitReport /\ [][NextBatch]_vars

\* C22: repairJson hands Repair Events to the callback given as its second
\* argument: for an input that needs a repair the callback is called with
\* the kind of that repair.
C22_BatchCallbackCalled ==
    pc = "done" =>
        \A c \in ReportCases :
            input = c.text =>
                \E j \in 1..Len(onRepairCalls(input)) : onRepairCalls(input)[j][1] = c.kind

---------------------------------------------------------------------------
(* Empty and blank input                                                   *)

MaxBlank == 3       \* characters of an input of white space

WhitespaceChars == {SP, TAB, LF, CR, VT, FF, NBSP, NNBSP, MMSP, IDSP, BOM}

\* Every text of white space up to MaxBlank, and the same with a digit among
\* it.
BlankInputs == Strings(WhitespaceChars \cup {"1"}, MaxBlank)

InitBlank == BatchStart(BlankInputs) /\ EngineStart

\* repairJson on every such input.
SpecBlank == InitBlank /\ [][NextBatch]_vars

\* C23: the empty input and every input of white space only give the empty
\* string.
C23_BlankGivesEmpty ==
    pc = "done" /\ (\A k \in 1..Len(input) : input[k] \in WhitespaceChars) => result = <<>>

\* Three characters of white space of three kinds have been given and the
\* empty string has come back without a scan.
C23_Witness ==
    /\ pc = "done"
    /\ input = <<SP, LF, NBSP>>
    /\ result = <<>>
    /\ steps = 0

---------------------------------------------------------------------------
(* Fenced code blocks                                                      *)

Fence == <<BT, BT, BT>>
FenceTags == { <<>>, <<"j", "s", "o", "n">> }
FenceLeads == { <<>>, <<SP>>, <<LF, SP>> }
FenceContents ==
    { <<"{", DQ, "a", DQ, ":", "1", "}">>,
      <<"{", DQ, "a", DQ, ":", SP, "1", "}">>,
      <<"[", "1", ",", SP, "2", "]">> }

\* The layouts of a fenced block around content c with language tag g: the
\* fences on lines of their own (LF and CR LF), the closing fence missing,
\* text after the closing fence, and all on one line.
fenceForms(g, c) ==
    { [form |-> "lines",    text |-> Fence \o g \o <<LF>> \o c \o <<LF>> \o Fence],
      [form |-> "crlf",     text |-> Fence \o g \o <<CR, LF>> \o c \o <<CR, LF>> \o Fence],
      [form |-> "unclosed", text |-> Fence \o g \o <<LF>> \o c],
      [form |-> "trailing", text |-> Fence \o g \o <<LF>> \o c \o <<LF>> \o Fence
                                      \o <<LF, "o", "k">>],
      [form |-> "one line", text |-> Fence \o g \o <<SP>> \o c \o <<SP>> \o Fence] }

FenceCases ==
    UNION {{ [text |-> l \o f.text, content |-> c, form |-> f.form]
             : l \in FenceLeads, f \in fenceForms(g, c) }
           : g \in FenceTags, c \in FenceContents}
FenceInputs == {c.text : c \in FenceCases}

InitFence == BatchStart(FenceInputs) /\ EngineStart

\* repairJson on every such input.
SpecFence == InitFence /\ [][NextBatch]_vars

\* C24: an input that starts, after optional white space, with a fence is
\* repaired as its content: what is scanned is the content (white space
\* aside) and the result is the content's value; with the fences on their
\* own lines, with the closing fence missing, and on one line.
C24_FenceUnwrapped ==
    pc = "done" =>
        \A c \in FenceCases :
            input = c.text =>
                /\ compact(bat.processed) = compact(c.content)
                /\ parseJson(result).ok
                /\ JsonValue(result) = JsonValue(c.content)


---------------------------------------------------------------------------
(* The stream adapters: jsonrepairTransform (a Node Transform, which is    *)
(* handed Buffers), jsonRepairStream and jsonRepairChunkedStream (Web       *)
(* TransformStreams of strings). Each keeps a buffer in its closure,        *)
(* appends every chunk to it and repairs the buffer when the stream ends.   *)

MaxPiece == 2       \* the chunkSize option
MaxSlice == 3       \* bytes / characters in one input chunk

REPL == "U+FFFD"

\* The UTF-8 bytes of one character: two bytes for U+00A0, three for the
\* curly quotes, the character itself for ASCII.
utf8(c) ==
    CASE c = NBSP -> <<"C2", "A0">>
      [] c = LDQ -> <<"E2", "80", "9C">>
      [] c = RDQ -> <<"E2", "80", "9D">>
      [] OTHER -> <<c>>

ContinuationBytes == {"80", "9C", "9D", "A0"}

RECURSIVE encode(_)
encode(text) == IF text = <<>> THEN <<>> ELSE utf8(Head(text)) \o encode(Tail(text))

\* chunk.toString() of a Buffer: UTF-8 decoding of these bytes alone; a
\* sequence cut short by the end of the Buffer, and a continuation byte
\* without its lead byte, each decode to U+FFFD.
RECURSIVE toString(_)
toString(chunk) ==
    IF chunk = <<>> THEN <<>>
    ELSE LET b == chunk[1]
             n == Len(chunk)
         IN CASE b = "C2" ->
                    IF n >= 2 /\ chunk[2] = "A0"
                    THEN <<NBSP>> \o toString(Drop(chunk, 2))
                    ELSE <<REPL>> \o toString(Drop(chunk, 1))
              [] b = "E2" ->
                    IF n >= 3 /\ chunk[2] = "80" /\ chunk[3] \in {"9C", "9D"}
                    THEN <<IF chunk[3] = "9C" THEN LDQ ELSE RDQ>> \o toString(Drop(chunk, 3))
                    ELSE IF n >= 2 /\ chunk[2] = "80"
                    THEN <<REPL>> \o toString(Drop(chunk, 2))
                    ELSE <<REPL>> \o toString(Drop(chunk, 1))
              [] b \in ContinuationBytes -> <<REPL>> \o toString(Drop(chunk, 1))
              [] OTHER -> <<b>> \o toString(Drop(chunk, 1))

Adapters == {"jsonrepairTransform", "jsonRepairStream", "jsonRepairChunkedStream"}

\* The texts that are streamed.
AdapterTexts ==
    { <<>>,
      <<SP>>,
      <<"[", "1", ",", "2">>,
      <<"{", DQ, "a", DQ, ":", "t", "r", "u">>,
      <<"[", DQ, "a", NBSP, "b">>,
      <<"[", LDQ, "a", RDQ>> }

\* jsonrepairTransform(options) / jsonRepairStream() / jsonRepairChunkedStream(n):
\* the closure, with what the stream's writer is still to write (source; bytes
\* for the Node adapter, characters for the Web ones), what it has written
\* (written) and what the adapter has emitted.
AdapterInit(adapter, chunkSize, text) ==
    [ adapter |-> adapter,
      chunkSize |-> chunkSize,
      buffer |-> <<>>,
      source |-> IF adapter = "jsonrepairTransform" THEN encode(text) ELSE text,
      written |-> <<>>,
      emitted |-> <<>>,
      ended |-> FALSE ]

\* transform(chunk): buffer += chunk.toString() in Node, buffer += chunk in
\* the Web adapters; nothing is pushed or enqueued.
transform(t, chunk) ==
    [t EXCEPT !.buffer =
                  @ \o (IF t.adapter = "jsonrepairTransform" THEN toString(chunk) ELSE chunk),
              !.written = @ \o chunk,
              !.source = Drop(@, Len(chunk))]

\* The loop "for (i = 0; i < repaired.length; i += chunkSize)" with its slices.
RECURSIVE slices(_, _)
slices(repaired, chunkSize) ==
    IF repaired = <<>> THEN <<>>
    ELSE IF Len(repaired) <= chunkSize THEN <<repaired>>
    ELSE <<Take(repaired, chunkSize)>> \o slices(Drop(repaired, chunkSize), chunkSize)

\* flush: the Node adapter repairs the buffer and pushes the slices; the Web
\* adapters do nothing for an empty buffer, and otherwise enqueue the
\* repaired text whole (jsonRepairStream) or in slices.
flush(t) ==
    [t EXCEPT !.ended = TRUE,
              !.emitted =
                  CASE t.adapter = "jsonrepairTransform" ->
                           slices(repairJson(t.buffer), t.chunkSize)
                    [] t.adapter = "jsonRepairStream" ->
                           IF Len(t.buffer) > 0 THEN <<repairJson(t.buffer)>> ELSE <<>>
                    [] OTHER ->
                           IF Len(t.buffer) > 0
                           THEN slices(repairJson(t.buffer), t.chunkSize)
                           ELSE <<>>]

\* An adapter is created for one stream.
Create ==
    /\ tr = NoAdapter
    /\ \E a \in Adapters, n \in 1..MaxPiece, text \in AdapterTexts :
           tr' = AdapterInit(a, n, text)
    /\ UNCHANGED batchVars
    /\ UNCHANGED incVars
    /\ UNCHANGED ex

\* The writer hands the next chunk to the adapter.
Transform ==
    /\ tr # NoAdapter
    /\ ~tr.ended
    /\ \E k \in 1..MaxSlice :
           /\ k <= Len(tr.source)
           /\ tr' = transform(tr, Take(tr.source, k))
    /\ UNCHANGED batchVars
    /\ UNCHANGED incVars
    /\ UNCHANGED ex

\* The input stream ends.
Flush ==
    /\ tr # NoAdapter
    /\ ~tr.ended
    /\ tr.source = <<>>
    /\ tr' = flush(tr)
    /\ UNCHANGED batchVars
    /\ UNCHANGED incVars
    /\ UNCHANGED ex

NextStream == Create \/ Transform \/ Flush

InitStream == EngineStart /\ BatchIdle

\* The stream adapters, each on every chunking of every text.
SpecStream == InitStream /\ [][NextStream]_vars

RECURSIVE concatAll(_)
concatAll(l) == IF l = <<>> THEN <<>> ELSE Head(l) \o concatAll(Tail(l))

\* The concatenation of all input chunks, as text.
writtenText(t) ==
    IF t.adapter = "jsonrepairTransform" THEN toString(t.written) ELSE t.written

\* C25 as stated: an adapter emits nothing before its input ends; what it
\* emits at flush is, piece by piece, at most chunkSize characters long (for
\* the adapters that take a chunkSize) and concatenates to repairJson of the
\* concatenation of all input chunks, whatever the chunking; an empty input
\* gives no piece at all. Refuted under SpecStream by the Node adapter when a
\* chunk boundary falls inside a multi-byte character.
C25_AdapterContract ==
    tr # NoAdapter =>
        /\ ~tr.ended => tr.emitted = <<>>
        /\ tr.ended =>
              /\ tr.adapter # "jsonRepairStream" =>
                    \A k \in 1..Len(tr.emitted) : Len(tr.emitted[k]) <= tr.chunkSize
              /\ concatAll(tr.emitted) = repairJson(writtenText(tr))
              /\ tr.written = <<>> => tr.emitted = <<>>


---------------------------------------------------------------------------
(* extractJson and extractAllJson: thinking blocks are removed from the    *)
(* text, then findJsonBlocks collects the bracket-balanced blocks.          *)

\* The lower-case form of the ASCII capitals (the i flag of the patterns).
lowerCase ==
    ("A" :> "a") @@ ("B" :> "b") @@ ("C" :> "c") @@ ("D" :> "d") @@ ("E" :> "e")
    @@ ("F" :> "f") @@ ("G" :> "g") @@ ("H" :> "h") @@ ("I" :> "i") @@ ("J" :>
    "j") @@ ("K" :> "k") @@ ("L" :> "l") @@ ("M" :> "m") @@ ("N" :> "n") @@ ("O"
    :> "o") @@ ("P" :> "p") @@ ("Q" :> "q") @@ ("R" :> "r") @@ ("S" :> "s") @@
    ("T" :> "t") @@ ("U" :> "u") @@ ("V" :> "v") @@ ("W" :> "w") @@ ("X" :> "x")
    @@ ("Y" :> "y") @@ ("Z" :> "z")

fold(c) == IF c \in DOMAIN lowerCase THEN lowerCase[c] ELSE c

\* THINKING_PATTERNS: /<tag>[\s\S]*?<\/tag>/gi for six tags, in this order.
THINKING_PATTERNS ==
    <<[open |-> <<"<", "t", "h", "o", "u", "g", "h", "t", ">">>,
       close |-> <<"<", "/", "t", "h", "o", "u", "g", "h", "t", ">">>],
      [open |-> <<"<", "t", "h", "i", "n", "k", "i", "n", "g", ">">>,
       close |-> <<"<", "/", "t", "h", "i", "n", "k", "i", "n", "g", ">">>],
      [open |-> <<"<", "t", "h", "i", "n", "k", ">">>,
       close |-> <<"<", "/", "t", "h", "i", "n", "k", ">">>],
      [open |-> <<"<", "r", "e", "a", "s", "o", "n", "i", "n", "g", ">">>,
       close |-> <<"<", "/", "r", "e", "a", "s", "o", "n", "i", "n", "g", ">">>],
      [open |-> <<"<", "s", "c", "r", "a", "t", "c", "h", "p", "a", "d", ">">>,
       close |-> <<"<", "/", "s", "c", "r", "a", "t", "c", "h", "p", "a", "d", ">">>],
      [open |-> <<"<", "i", "n", "t", "e", "r", "n", "a", "l", ">">>,
       close |-> <<"<", "/", "i", "n", "t", "e", "r", "n", "a", "l", ">">>]>>

\* The pattern's literal part lit matches at index k (0-based), ignoring case.
matchesAt(text, lit, k) ==
    /\ k + Len(lit) <= Len(text)
    /\ \A j \in 1..Len(lit) : fold(text[k + j]) = lit[j]

RECURSIVE indexOfLit(_, _, _)
\* The first index >= k at which lit matches, -1 when there is none.
indexOfLit(text, lit, k) ==
    IF k + Len(lit) > Len(text) THEN -1
    ELSE IF matchesAt(text, lit, k) THEN k
    ELSE indexOfLit(text, lit, k + 1)

RECURSIVE replacePattern(_, _, _)
\* text.replace(pattern, '') from index k on: the leftmost opening tag with a
\* closing tag after it, together with the shortest text up to a closing tag,
\* is removed, and the search goes on behind it.
replacePattern(text, pattern, k) ==
    LET o == indexOfLit(text, pattern.open, k)
        c == IF o < 0 THEN -1 ELSE indexOfLit(text, pattern.close, o + Len(pattern.open))
    IN IF c < 0 THEN Drop(text, k)
       ELSE substring(text, k, o) \o replacePattern(text, pattern, c + Len(pattern.close))

RECURSIVE stripThinking(_, _)
\* for (const pattern of THINKING_PATTERNS) text = text.replace(pattern, '')
stripThinking(text, n) ==
    IF n > Len(THINKING_PATTERNS) THEN text
    ELSE stripThinking(replacePattern(text, THINKING_PATTERNS[n], 0), n + 1)

RECURSIVE scanBlock(_, _, _, _, _, _)
\* The inner while loop of findJsonBlocks: the index behind the block and
\* the depth reached there.
scanBlock(text, i, depth, inString, escaped, char) ==
    IF ~(i < Len(text) /\ depth > 0) THEN [i |-> i, depth |-> depth]
    ELSE LET c == at(text, i)
             closeChar == IF char = "{" THEN "}" ELSE "]"
         IN IF escaped THEN scanBlock(text, i + 1, depth, inString, FALSE, char)
            ELSE IF c = BSL /\ inString THEN scanBlock(text, i + 1, depth, inString, TRUE, char)
            ELSE IF c = DQ THEN scanBlock(text, i + 1, depth, ~inString, FALSE, char)
            ELSE IF ~inString /\ c = char
            THEN scanBlock(text, i + 1, depth + 1, inString, FALSE, char)
            ELSE IF ~inString /\ c = closeChar
            THEN scanBlock(text, i + 1, depth - 1, inString, FALSE, char)
            ELSE scanBlock(text, i + 1, depth, inString, FALSE, char)

RECURSIVE findJsonBlocksFrom(_, _)
\* The outer while loop of findJsonBlocks from index i on.
findJsonBlocksFrom(text, i) ==
    IF ~(i < Len(text)) THEN <<>>
    ELSE IF at(text, i) \in {"{", "["}
    THEN LET e == scanBlock(text, i + 1, 1, FALSE, FALSE, at(text, i))
         IN IF e.depth = 0
            THEN <<substring(text, i, e.i)>> \o findJsonBlocksFrom(text, e.i)
            ELSE <<Drop(text, i)>> \o findJsonBlocksFrom(text, e.i)
    ELSE findJsonBlocksFrom(text, i + 1)

findJsonBlocks(text) == findJsonBlocksFrom(text, 0)

RECURSIVE largest(_)
\* blocks.reduce((a, b) => a.length > b.length ? a : b)
largest(blocks) ==
    IF Len(blocks) = 1 THEN blocks[1]
    ELSE LET a == largest(Take(blocks, Len(blocks) - 1))
             b == blocks[Len(blocks)]
         IN IF Len(a) > Len(b) THEN a ELSE b

\* The options with their defaults.
ExtractOptions == [stripThinkingBlocks : BOOLEAN, preferLargest : BOOLEAN]
DefaultOptions == [stripThinkingBlocks |-> TRUE, preferLargest |-> FALSE]

extractJson(text, options) ==
    LET stripped == IF options.stripThinkingBlocks THEN stripThinking(text, 1) ELSE text
        blocks == findJsonBlocks(stripped)
    IN IF Len(blocks) = 0 THEN text
       ELSE IF options.preferLargest THEN largest(blocks)
       ELSE blocks[1]

extractAllJson(text, options) ==
    findJsonBlocks(IF options.stripThinkingBlocks THEN stripThinking(text, 1) ELSE text)

\* Prose without '{' or '[', one complete valid JSON object or array, more
\* prose.
ProseBefore ==
    { <<>>,
      <<"D", "a", "t", "a", ":", SP>>,
      <<"x", DQ, "y", ":", SP>>,
      <<"<", "t", "h", "i", "n", "k", ">", "a", "<", "/", "t", "h", "i", "n", "k", ">", LF>>,
      <<"<", "t", "h", "i", "n", "k", ">", SP>> }
JsonBlocks ==
    { <<"{", DQ, "a", DQ, ":", "1", "}">>,
      <<"[", "1", ",", "{", DQ, "b", DQ, ":", "[", "2", "]", "}", "]">>,
      <<"{", DQ, "m", DQ, ":", DQ, "{", "]", DQ, "}">>,
      <<"{", DQ, "q", DQ, ":", DQ, BSL, BSL, BSL, DQ, "}", DQ, "}">>,
      <<"{", DQ, "m", DQ, ":", DQ, "<", "T", "h", "i", "n", "k", ">", "x", "<", "/", "t", "h", "i", "n", "k", ">", DQ, "}">> }
ProseAfter ==
    { <<>>,
      <<SP, "o", "k">>,
      <<SP, "}">>,
      <<SP, "{", DQ, "b", DQ, ":", "2", "}">>,
      <<SP, "<", "/", "t", "h", "i", "n", "k", ">">>,
      <<SP, DQ, "q">> }
\* Texts without '{' and '['.
PlainTexts ==
    { <<>>,
      <<"p", "l", "a", "i", "n", SP, "t", "e", "x", "t">>,
      <<"<", "t", "h", "i", "n", "k", ">", "a", "<", "/", "t", "h", "i", "n", "k", ">", "b">>,
      <<"s", "a", "y", SP, DQ, "h", "i", DQ>> }

ExtractCases ==
    {[text |-> a \o j \o b, json |-> j] : a \in ProseBefore, j \in JsonBlocks, b \in ProseAfter}
ExtractInputs == {c.text : c \in ExtractCases} \cup PlainTexts

\* extractJson(text, options) is called (one call in a behaviour: the
\* functions keep nothing between calls).
ExtractJson ==
    /\ ex = NoCall
    /\ \E text \in ExtractInputs, options \in ExtractOptions :
           ex' = [fn |-> "extractJson", input |-> text, options |-> options,
                  result |-> extractJson(text, options)]
    /\ UNCHANGED batchVars
    /\ UNCHANGED incVars
    /\ UNCHANGED tr

\* extractAllJson(text, options) is called.
ExtractAllJson ==
    /\ ex = NoCall
    /\ \E text \in ExtractInputs, options \in ExtractOptions :
           ex' = [fn |-> "extractAllJson", input |-> text, options |-> options,
                  result |-> extractAllJson(text, options)]
    /\ UNCHANGED batchVars
    /\ UNCHANGED incVars
    /\ UNCHANGED tr

NextExtract == ExtractJson \/ ExtractAllJson

InitExtract == EngineStart /\ BatchIdle

\* The extraction functions, called on prose around one JSON value and on
\* texts without brackets.
SpecExtract == InitExtract /\ [][NextExtract]_vars

\* C26 as stated: with the default options extractJson returns exactly the
\* JSON value that stands between the prose; on a text without '{' and '['
\* extractJson returns the text unchanged and extractAllJson the empty list.
\* Refuted under SpecExtract: a thinking block is removed even where it lies
\* inside a string of the JSON value.
C26_ExtractsTheValue ==
    (ex # NoCall /\ ex.options = DefaultOptions) =>
        /\ ex.fn = "extractJson" =>
              \A c \in ExtractCases : ex.input = c.text => ex.result = c.json
        /\ ex.input \in PlainTexts =>
              ex.result = (IF ex.fn = "extractJson" THEN ex.input ELSE <<>>)


---------------------------------------------------------------------------
(* The lexical modes and the STRING tag of the context stack, in the batch *)
(* automaton while it scans and in the engine between push calls.          *)

MaxMode == 4        \* characters of a text that switches between the modes

ModeAlphabet == {"{", DQ, "t", "/", "*", LF, ":", "+"}
W_Date == <<"D", "a", "t", "e">>

\* Short texts over the characters that enter and leave the modes, and the
\* same inside a wrapper call.
ModeInputs ==
    Strings(ModeAlphabet, MaxMode)
    \cup {W_Date \o <<"(">> \o x : x \in Strings(ModeAlphabet \cup {")"}, MaxMode - 2)}

InitModes == BatchStart(ModeInputs) /\ EngineStart

\* repairJson on a text that switches between the modes, then one engine fed
\* the same text in chunks.
SpecModes == InitModes /\ [][NextBoth]_vars

stringTags(stack) == {k \in 1..Len(stack) : stack[k] = STRINGCTX}

\* A STRING tag is on the stack exactly in string mode, and then one only, on
\* top.
stringTagMatches(stack, inString) ==
    /\ inString <=> stringTags(stack) # {}
    /\ inString => stringTags(stack) = {Len(stack)}

\* C27: while the batch automaton scans, and in the engine as long as only
\* push has been called on it, the context stack holds a STRING tag if and
\* only if the automaton is in string mode, and then exactly one, on top.
C27_StringTagIffInString ==
    /\ pc = "scan" => stringTagMatches(bat.stack, bat.inString)
    /\ ends = 0 => stringTagMatches(inc.stack, inc.inString)

\* A string has been reopened behind a just-closed one, inside an object, in
\* the batch scan; the engine is inside a string below an object after two pushes.
C27_Witness ==
    \/ /\ pc = "scan" /\ bat.inString /\ Len(bat.stack) = 2
       /\ input = <<"{", DQ, DQ, DQ>> /\ bat.i = 4
    \/ /\ lastOp = "push" /\ inc.inString /\ Len(inc.stack) = 2
       /\ Len(pushed) = MaxMode

modeCount(flags) == Cardinality({k \in 1..Len(flags) : flags[k]})

\* The five modes that exclude each other.
batModes ==
    <<bat.inString, bat.inUnquotedKey, bat.inValue, bat.inSingleLineComment,
      bat.inMultiLineComment>>
incModes ==
    <<inc.inString, inc.inUnquotedKey, inc.inValue, inc.inSingleLineComment,
      inc.inMultiLineComment>>

---------------------------------------------------------------------------
(* Nesting of the braces and brackets of the returned text.                *)

RECURSIVE nesting(_, _, _, _, _)
\* A left-to-right reading of text from position k: open is the sequence of
\* openers still open, inStr / esc tell whether k is inside a double-quoted
\* string / behind a backslash in it. The result is <<"bad">> when a closer
\* does not close the most recent open opener, else the openers left open.
nesting(text, k, open, inStr, esc) ==
    IF k > Len(text) THEN open
    ELSE LET c == text[k]
         IN IF inStr
            THEN IF esc THEN nesting(text, k + 1, open, TRUE, FALSE)
                 ELSE IF c = BSL THEN nesting(text, k + 1, open, TRUE, TRUE)
                 ELSE nesting(text, k + 1, open, c # DQ, FALSE)
            ELSE IF c = DQ THEN nesting(text, k + 1, open, TRUE, FALSE)
            ELSE IF c \in {"{", "["} THEN nesting(text, k + 1, Append(open, c), FALSE, FALSE)
            ELSE IF c \in {"}", "]"}
            THEN IF open # <<>> /\ open[Len(open)] = (IF c = "}" THEN "{" ELSE "[")
                 THEN nesting(text, k + 1, Front(open), FALSE, FALSE)
                 ELSE <<"bad">>
            ELSE nesting(text, k + 1, open, FALSE, FALSE)

wellNested(text) == nesting(text, 1, <<>>, FALSE, FALSE) = <<>>

\* C29 as stated: in the text repairJson returns, every '}' and ']' outside
\* strings closes the most recent still-open '{' or '[' of its own kind, and
\* no opener is left open. Refuted under SpecBatch: a '}' is copied to the
\* output whatever the context stack holds.
C29_OutputWellNested == pc = "done" => wellNested(result)


---------------------------------------------------------------------------
(* The root element counter and the array wrapper, on inputs made of       *)
(* complete top-level values.                                              *)

TopValues ==
    { <<"{", "}">>,
      <<"[", "1", "]">>,
      <<"{", DQ, "a", DQ, ":", "[", "2", "]", "}">>,
      <<"1">>,
      <<DQ, "s", DQ>> }
TopSeparators == { <<LF>>, <<SP>> }
\* What may follow the last value: nothing, or a stray closer.
TopTails == { <<>>, <<"}">>, <<"]">> }

\* One to MaxRoots values with one separator between neighbours and a tail.
TopCases ==
    UNION {{ [text  |-> joinWith(parts, sep) \o tail,
              parts |-> parts,
              sep   |-> sep]
             : parts \in [1..k -> TopValues], sep \in TopSeparators, tail \in TopTails }
           : k \in 1..MaxRoots}
TopInputs == {c.text : c \in TopCases}

InitTop == BatchStart(TopInputs) /\ EngineStart

\* repairJson on every such input.
SpecTop == InitTop /\ [][NextBatch]_vars

RECURSIVE endOfPart(_, _)
\* The number of characters of c.text up to the end of its j-th value.
endOfPart(c, j) ==
    IF j = 0 THEN 0
    ELSE endOfPart(c, j - 1) + (IF j > 1 THEN Len(c.sep) ELSE 0) + Len(c.parts[j])

\* The values of c.text that lie wholly within its first n characters.
valuesCompleted(c, n) == Cardinality({j \in 1..Len(c.parts) : endOfPart(c, j) <= n})

\* The returned text is the output buffer between '[' and ']'.
isWrapped == result = <<"[">> \o bat.output \o <<"]">>

\* C30 as stated: the root element counter equals the number of top-level
\* values completed so far, and the result is wrapped in '[' and ']' if and
\* only if that number exceeds 1; an input whose only top-level value is a
\* single object is not wrapped. Refuted under SpecTop: a stray '}' behind
\* the value is counted, and values that are not objects or arrays are not.
C30_CounterCountsValues ==
    \A c \in TopCases :
        input = c.text =>
            /\ pc = "scan" => bat.rootElementCount = valuesCompleted(c, bat.i)
            /\ pc = "done" =>
                  /\ bat.rootElementCount = Len(c.parts)
                  /\ isWrapped <=> Len(c.parts) > 1


---------------------------------------------------------------------------
(* Stray closing brackets: ']' at the root and inside an object.           *)

MaxCloser == 4      \* characters of a text of openers, closers and members

CloserAlphabet == {"{", "}", "[", "]", DQ, ":", ",", "1"}

\* Short texts over these characters, and three longer ones in which ']'
\* comes where a value or a key is owed.
CloserInputs ==
    Strings(CloserAlphabet, MaxCloser)
    \cup { <<"{", DQ, "a", DQ, ":", "]", "}">>,
           <<"{", DQ, "a", DQ, ":", "1", ",", "]">>,
           <<"[", "{", DQ, "a", DQ, "]", "]">> }

InitClosers == BatchStart(CloserInputs) /\ EngineStart

\* repairJson on such a text, then one engine fed the same text in chunks.
SpecClosers == InitClosers /\ [][NextBoth]_vars

\* Structural mode: neither in a string, a key, a value nor a comment.
structural(e) ==
    ~e.inString /\ ~e.inUnquotedKey /\ ~e.inValue
    /\ ~e.inSingleLineComment /\ ~e.inMultiLineComment

\* The context stack, the root counter and the key / colon / value flags.
frame(e) ==
    <<e.stack, e.rootElementCount, e.inObjectKey, e.needsColon, e.expectingValue,
      e.expectingKeyOrEnd>>

\* The scan loop is about to read c.
batchReads(c) == pc = "scan" /\ bat.i < len(bat) /\ cur(bat) = c

\* push is called with the one character c.
enginePushed(c) == lastOp' = "push" /\ pushed' = Append(pushed, c)

\* C31: a ']' read in structural mode while the context stack is empty or
\* its top is OBJECT is discarded: the output, the stack, the root counter and
\* the key / colon / value flags stay as they are. Whatever the mode outside
\* strings and comments, a ']' leaves a stack with OBJECT on top as it is, and
\* where reading it puts a ']' at the end of the output the top was ARRAY.
\* This holds for the batch automaton and for the engine.
C31_StrayBracketDiscarded ==
    [][ /\ (batchReads("]") /\ bat' # bat) =>
              /\ (structural(bat) /\ ~topIs(bat, ARRAY)) =>
                    bat'.output = bat.output /\ frame(bat') = frame(bat)
              /\ (~bat.inString /\ topIs(bat, OBJECT)) => bat'.stack = bat.stack
              /\ (~bat.inString /\ bat'.output # bat.output /\ Last(bat'.output) = "]") =>
                    topIs(bat, ARRAY)
        /\ enginePushed("]") =>
              /\ (structural(inc) /\ (inc.stack = <<>> \/ top(inc.stack) # ARRAY)) =>
                    out' = out /\ frame(inc') = frame(inc)
              /\ (~inc.inString /\ inc.stack # <<>> /\ top(inc.stack) = OBJECT) =>
                    inc'.stack = inc.stack
              /\ (~inc.inString /\ out' # out /\ Last(out') = "]") =>
                    (inc.stack # <<>> /\ top(inc.stack) = ARRAY)
      ]_vars

\* The batch scan has passed a ']' that stood behind a key in an object, and
\* the engine has been pushed a ']' at the root.
C31_Witness ==
    \/ /\ pc = "scan" /\ input = <<"{", DQ, DQ, "]">> /\ bat.i = 4
       /\ bat.needsColon /\ bat.stack = <<OBJECT>>
    \/ /\ lastOp = "push" /\ pushed = <<"[", "]", "]">> /\ inc.stack = <<>>
       /\ inc.rootElementCount = 1


---------------------------------------------------------------------------
(* A key without a value in front of '}'.                                  *)

\* The keys as written and as they stand in the expected text.
ValuelessKeys ==
    { [written |-> <<DQ, "a", DQ>>, key |-> <<DQ, "a", DQ>>],
      [written |-> <<DQ, DQ>>, key |-> <<DQ, DQ>>],
      [written |-> <<"a">>, key |-> <<DQ, "a", DQ>>] }
\* What stands between the key and '}': nothing, or a colon.
ValuelessGaps == { <<>>, <<":">>, <<":", SP>>, <<SP, ":">> }
\* What stands around the member.
ValuelessFrames ==
    { [before |-> <<"{">>, after |-> <<"}">>],
      [before |-> <<"[", "{">>, after |-> <<"}", "]">>],
      [before |-> <<"{", DQ, "x", DQ, ":", "1", ",">>, after |-> <<"}">>] }

ValuelessCases ==
    { [text     |-> f.before \o k.written \o g \o f.after,
       expected |-> f.before \o k.key \o W_nullMember \o f.after,
       colon    |-> g # <<>>]
      : k \in ValuelessKeys, g \in ValuelessGaps, f \in ValuelessFrames }
ValuelessInputs == {c.text : c \in ValuelessCases}

InitValueless == BatchStart(ValuelessInputs) /\ EngineStart

\* repairJson on such a text, then one engine fed the same text and ended.
SpecValueless == InitValueless /\ [][NextBoth]_vars

\* C32 as stated: a key that has no value when '}' is read gets the value
\* null, with or without a colon behind the key, so that the text returned
\* by repairJson, and the text an engine has produced once the stream is
\* ended, is the JSON text with that member null. Refuted under
\* SpecValueless: null is inserted only where the colon is missing as well.
C32_NullForValuelessKey ==
    \A c \in ValuelessCases :
        input = c.text =>
            /\ pc = "done" =>
                  IsJson(result) /\ JsonValue(result) = JsonValue(c.expected)
            /\ (lastOp = "end" /\ pushed = input) =>
                  IsJson(out \o closing) /\ JsonValue(out \o closing) = JsonValue(c.expected)


---------------------------------------------------------------------------
(* The characters inside a string.                                         *)

MaxContent == 3     \* characters behind the opening quote

StringAlphabet == {"/", "*", ".", "+", "[", "}", ":", ",", "(", ")", BSL, DQ}

\* What stands in front of the string: nothing, a key, or a wrapper name and
\* its parenthesis.
StringOpeners ==
    { <<DQ>>,
      <<"{", DQ, "a", DQ, ":", DQ>>,
      W_Date \o <<"(", DQ>>,
      <<"[">> \o W_Date \o <<"(", DQ>> }

StringInputs == {o \o x : o \in StringOpeners, x \in Strings(StringAlphabet, MaxContent)}

InitStrings == BatchStart(StringInputs) /\ EngineStart

\* repairJson on an opened string and what follows.
SpecStrings == InitStrings /\ [][NextBatch]_vars

\* C33 as stated: while the batch automaton is in string mode, a character
\* that is not the closing quote (the string's quote glyph, not behind a
\* backslash) is appended to the output as it is and the automaton stays in
\* string mode; this includes the character behind an unescaped backslash.
\* Refuted under SpecStrings: in the argument of a wrapper call a ')' is
\* consumed by the wrapper branch.
C33_StringCopiedVerbatim ==
    [][ (batchReads(cur(bat)) /\ bat.inString /\ bat' # bat
         /\ (bat.escaped \/ cur(bat) # bat.stringQuote)) =>
            /\ bat'.output = Append(bat.output, cur(bat))
            /\ bat'.inString
            /\ bat'.i = bat.i + 1
      ]_vars


---------------------------------------------------------------------------
(* Line comments.                                                          *)

MaxBody == 2        \* characters of a comment behind its '//'

CommentAlphabet == {"x", "/", "*", DQ, "}"}
LineTerminators == {LF, CR}
\* What stands in front of the comment and behind its terminator.
CommentFrames ==
    { [before |-> <<"[", "1", ",">>, after |-> <<"2", "]">>],
      [before |-> <<"{", DQ, "a", DQ, ":", "1">>, after |-> <<"}">>],
      [before |-> <<"[">>, after |-> <<"1", "]">>] }

LineCommentCases ==
    { [text   |-> f.before \o <<"/", "/">> \o b \o <<t>> \o f.after,
       before |-> f.before,
       term   |-> t,
       after  |-> f.after]
      : f \in CommentFrames, b \in Strings(CommentAlphabet, MaxBody), t \in LineTerminators }
LineCommentInputs == {c.text : c \in LineCommentCases}

\* The whole input as one chunk, once repairJson has returned.
PushWhole ==
    /\ pc = "done"
    /\ pushed = <<>>
    /\ Push(input)

NextWhole == Start \/ ScanStep \/ Finish \/ PushWhole \/ EndStream

InitLineComments == BatchStart(LineCommentInputs) /\ EngineStart

\* repairJson on a text with one line comment, then one engine pushed the
\* same text as one chunk and ended.
SpecLineComments == InitLineComments /\ [][NextWhole]_vars

---------------------------------------------------------------------------
(* Comment delimiters and chunk boundaries in the engine.                  *)

\* Texts with one comment.
SplitInputs ==
    { <<"[", "1", "/", "*", "x", "*", "/", ",", "2", "]">>,
      <<"[", "/", "*", "*", "/", "1", "]">>,
      <<"{", "/", "*", "x", "*", "/", DQ, "a", DQ, ":", "1", "}">>,
      <<"[", "1", ",", "/", "/", "x", LF, "2", "]">>,
      <<"[", "/", "/", LF, "1", "]">> }

InitSplit == BatchStart(SplitInputs) /\ EngineStart

\* repairJson on such a text, then one engine fed the same text in chunks of
\* one or two characters, in every way.
SpecSplit == InitSplit /\ [][NextBoth]_vars

\* C35 as stated: once the whole text has been pushed, in whatever chunks,
\* the engine has produced the output and is in the state that it reaches
\* when the text is pushed as one chunk. Refuted under SpecSplit: a '*' or
\* '/' that ends a chunk is read without its successor.
C35_DelimitersAcrossChunks ==
    (lastOp = "push" /\ pushed = input) =>
        /\ out = push(EngineInit(FALSE), input).ret
        /\ inc = push(EngineInit(FALSE), input).e


---------------------------------------------------------------------------
(* Partial literals and chunk boundaries in the engine.                    *)

\* A partial literal with the word it abbreviates.
PendingLiterals ==
    { <<Take(W_true, 3), W_true>>, <<Take(W_true, 2), W_true>>,
      <<Take(W_false, 4), W_false>>, <<Take(W_null, 3), W_null>>,
      <<Take(W_None, 3), W_null>>, <<Take(W_True, 3), W_true>> }

\* The text before the literal and the closer of its container.
PendingFrames ==
    { [before |-> <<"{", DQ, "a", DQ, ":", SP>>, closer |-> "}"],
      [before |-> <<"[">>, closer |-> "]"] }

\* A partial literal in a container, ended either by the closer of the
\* container or by the end of the stream, with the text that holds the full
\* lowercase literal in place of the partial token.
PendingCases ==
    { [text     |-> f.before \o l[1] \o (IF closed THEN <<f.closer>> ELSE <<>>),
       expected |-> f.before \o l[2] \o <<f.closer>>]
        : f \in PendingFrames, l \in PendingLiterals, closed \in BOOLEAN }

PendingInputs == {c.text : c \in PendingCases}

InitPending == BatchStart(PendingInputs) /\ EngineStart

\* repairJson on such a text, then one engine fed the same text in chunks of
\* one or two characters, in every way, and ended.
SpecPending == InitPending /\ [][NextBoth]_vars

\* C36 as stated: once the whole text has been pushed and the stream ended once,
\* the concatenated output holds the full lowercase literal exactly once in
\* place of the partial token. Refuted under SpecPending: the terminator of
\* a later chunk pushes the whole word after the characters already
\* returned, and end() appends the word minus as many characters as the
\* token has, whatever their case.
C36_PendingLiteralCompleted ==
    \A c \in PendingCases :
        (input = c.text /\ lastOp = "end" /\ ends = 1 /\ pushed = input) =>
            out \o closing = c.expected


---------------------------------------------------------------------------
(* Input that ends inside a string after backslashes.                      *)

MaxSlash == 3

\* n backslashes.
RECURSIVE slashes(_)
slashes(n) == IF n = 0 THEN <<>> ELSE <<BSL>> \o slashes(n - 1)

\* A text that ends inside a string value, with the closers owed after the
\* closing quote.
OpenStrings ==
    { [before |-> <<DQ, "a", "b">>, closers |-> <<>>],
      [before |-> <<"{", DQ, "k", DQ, ":", DQ, "t">>, closers |-> <<"}">>],
      [before |-> <<"[", DQ>>, closers |-> <<"]">>] }

\* The text followed by n backslashes, with the text expected: the paired
\* backslashes are kept, an unpaired last one is dropped, and the string
\* and its containers are closed.
TrailingCases ==
    { [text     |-> f.before \o slashes(n),
       slashes  |-> n,
       expected |-> f.before \o slashes(n - (n % 2)) \o <<DQ>> \o f.closers]
        : f \in OpenStrings, n \in 1..MaxSlash }

TrailingInputs == {c.text : c \in TrailingCases}

InitTrailing == BatchStart(TrailingInputs) /\ EngineStart

\* repairJson on such a text, then one engine fed the same text in chunks of
\* one or two characters, in every way, and ended.
SpecTrailing == InitTrailing /\ [][NextBoth]_vars

\* C37 as stated: an unpaired backslash at the end of the input is dropped
\* before the closing quote is appended, by repairJson and by a stream that
\* is ended, and a pair of backslashes is kept. Refuted under SpecTrailing:
\* end() appends the quote after the backslash, which escapes it.
C37_TrailingBackslashDropped ==
    \A c \in TrailingCases : input = c.text =>
        /\ pc = "done" => result = c.expected
        /\ (lastOp = "end" /\ ends = 1 /\ pushed = input) =>
               out \o closing = c.expected


---------------------------------------------------------------------------
(* The glyph that opens a merged segment.                                  *)

\* What may stand between a closed string and the quote that opens the next
\* segment: optional white space and an optional '+'.
MergeGaps ==
    { <<>>, <<SP>>, <<"+">>, <<SP, "+">>, <<"+", SP>>, <<SP, "+", SP>>,
      <<TAB, "+">>, <<SP, SP>> }

\* The glyph pairs around the second segment.
MergeQuotes == { <<DQ, DQ>>, <<SQ, SQ>>, <<LDQ, RDQ>>, <<LSQ, RSQ>> }

\* A first segment between straight quotes, a gap, and a second segment
\* between the glyphs q, with the same text where the second segment stands
\* between straight quotes.
MergeCases ==
    { [text     |-> p.pre \o <<DQ, "a", DQ>> \o g \o <<q[1], "b", q[2]>> \o p.post,
       straight |-> p.pre \o <<DQ, "a", DQ>> \o g \o <<DQ, "b", DQ>> \o p.post,
       merged   |-> p.pre \o <<DQ, "a", "b", DQ>> \o p.post]
        : p \in ConcatPlaces, g \in MergeGaps, q \in MergeQuotes }

MergeInputs == {c.text : c \in MergeCases}

InitMerge == BatchStart(MergeInputs) /\ EngineStart

\* repairJson on every such input.
SpecMerge == InitMerge /\ [][NextBatch]_vars

\* C38 as stated: the result does not depend on the glyph that opens the
\* second segment; it is the result for a straight quote, which is the one
\* merged string. Refuted under SpecMerge: a curly opener retracts the
\* closing quote only when it is the last character written.
C38_MergeWhateverTheGlyph ==
    pc = "done" =>
        \A c \in MergeCases : input = c.text =>
            /\ result = repairJson(c.straight)
            /\ result = c.merged


---------------------------------------------------------------------------
(* end() called twice.                                                     *)

\* Streams that stop in each state end() has a branch for: inside a key,
\* after a key, after a colon, inside an unquoted key, inside a string
\* value, inside a literal, inside containers, after two root values.
DrainInputs ==
    { <<"{", DQ, "a">>,
      <<"{", DQ, "a", DQ>>,
      <<"{", DQ, "a", DQ, ":">>,
      <<"{", "a">>,
      <<"[", DQ, "x">>,
      <<"[", "t", "r", "u">>,
      <<"{", DQ, "a", DQ, ":", "[", "1">>,
      <<"[", "1", ",">>,
      <<"{", "}", SP, "{", "}">>,
      <<"[", "1", "]">>,
      <<"{", DQ, "a", DQ, ":", DQ, "x">>,
      <<"[", "[">> }

InitDrain == BatchStart(DrainInputs) /\ EngineNew(TRUE)

\* repairJson on such a text, then one engine with a callback fed the same
\* text in chunks of one or two characters, in every way, and ended up to
\* MaxEnds times.
SpecDrain == InitDrain /\ [][NextBoth]_vars

\* C39 as stated: when end() returns, the stack is empty and no open string,
\* unquoted key, owed colon or expected value remains, and an end() that
\* follows an end() returns the empty string and emits no event. Refuted
\* under SpecDrain: end() clears only the pending literal.
C39_EndDrains ==
    [][(lastOp' = "end" /\ ends' = ends + 1) =>
          /\ inc'.stack = <<>>
          /\ ~inc'.inString /\ ~inc'.inUnquotedKey
          /\ ~inc'.needsColon /\ ~inc'.expectingValue
          /\ lastOp = "end" => (closing' = <<>> /\ log' = <<>>)]_vars


---------------------------------------------------------------------------
(* Corrective actions and the events that report them.                     *)

\* A stream pushed as one chunk, with the number of corrective actions that
\* push has to take on it and the number end() has to take after it:
\* quotes inserted, literals completed, closers appended, commas inserted
\* between root elements, synthetic keys and null values.
ActionCases ==
    { [text |-> <<"[", DQ, "x">>,                     inPush |-> 0, inEnd |-> 2],
      [text |-> <<"{", DQ, "a", DQ, ":", DQ, "x">>,   inPush |-> 0, inEnd |-> 2],
      [text |-> <<"[", "t", "r", "u">>,               inPush |-> 0, inEnd |-> 2],
      [text |-> <<"[", "t", "r", "u", "]">>,          inPush |-> 1, inEnd |-> 0],
      [text |-> <<"{", DQ, "a", DQ, ":">>,            inPush |-> 0, inEnd |-> 2],
      [text |-> <<"{", DQ, "a", DQ>>,                 inPush |-> 0, inEnd |-> 2],
      [text |-> <<"{", DQ, "a", DQ, "}">>,            inPush |-> 1, inEnd |-> 0],
      [text |-> <<"{", "a", ":", "1", "}">>,          inPush |-> 1, inEnd |-> 0],
      [text |-> <<"{", "}", SP, "{", "}">>,           inPush |-> 1, inEnd |-> 0],
      [text |-> <<"[", "1">>,                         inPush |-> 0, inEnd |-> 1],
      [text |-> <<"{", DQ, "a", DQ, ":", "[", "1">>,  inPush |-> 0, inEnd |-> 2],
      [text |-> <<"[", "1", "]">>,                    inPush |-> 0, inEnd |-> 0] }

ActionInputs == {c.text : c \in ActionCases}

\* snapshot() on the stream once the whole input has been pushed.
SnapshotStream ==
    /\ pc = "done"
    /\ pushed = input
    /\ ends = 0
    /\ Snapshot

NextActions == Start \/ ScanStep \/ Finish \/ PushWhole \/ SnapshotStream \/ EndStream

InitActions == BatchStart(ActionInputs) /\ EngineNew(TRUE)

\* One engine with a callback: the input pushed as one chunk, snapshot()
\* any number of times, then end().
SpecActions == InitActions /\ [][NextActions]_vars

\* C40 as stated: the call that returns the output of a corrective action
\* hands the callback one event for it, so push and the first end() report
\* as many events as they take actions, and an end() that follows a
\* snapshot() reports nothing the snapshot has reported. Refuted under
\* SpecActions: end() closes an open string without an event, and
\* snapshot() runs end(), whose events the later end() delivers again.
C40_OneEventPerAction ==
    [][\A c \in ActionCases : input = c.text =>
          /\ lastOp' = "push" => Len(log') = c.inPush
          /\ (lastOp' = "end" /\ ends' = 1) => Len(log') = c.inEnd
          /\ (lastOp = "snapshot" /\ lastOp' = "end") =>
                 \A i \in 1..Len(log), j \in 1..Len(log') : log[i] # log'[j]
      ]_vars

====
